---- MODULE Spec2Model ----
(***************************************************************************)
(* Markdown image base64 conversion pipeline of yuque-dl:                  *)
(*   src/convert/imageUtils.ts         the image codec                     *)
(*   src/convert/markdownProcessor.ts  the extractor and the rewriter      *)
(*   src/convert/fileScanner.ts        the scanner and the materializer    *)
(*   src/convert/converter.ts          the orchestrator                    *)
(*   src/convert/index.ts              the entry point                     *)
(* and the export poll of src/api.ts (pollExportStatus).                   *)
(*                                                                         *)
(* Text is a sequence of atoms.  An atom is one character ("!", "[", "$")  *)
(* or a run of characters that none of the operations ever splits          *)
(* ("http://", ".png", a file name).  A path is text; the filesystem maps  *)
(* normalised absolute paths to nodes.                                     *)
(***************************************************************************)
EXTENDS Integers, Sequences, FiniteSets, TLC

(***************************************************************************)
(* Bounds of the model.                                                    *)
(***************************************************************************)
MaxBytes == 3
MaxFragments == 3

(***************************************************************************)
(* Generic text helpers (JavaScript string primitives).                    *)
(***************************************************************************)
Min(a, b) == IF a < b THEN a ELSE b

Range(s) == {s[k] : k \in 1..Len(s)}

\* s.slice(from - 1) for 1-based from
Drop(s, from) == SubSeq(s, from, Len(s))

\* s.startsWith(p, at - 1)
MatchesAt(s, p, at) ==
  /\ at + Len(p) - 1 <= Len(s)
  /\ \A k \in 1..Len(p) : s[at + k - 1] = p[k]

\* s.indexOf(p) + 1, or 0 when p does not occur in s
IndexOf(s, p) ==
  LET hits == {at \in 1..(Len(s) + 1) : MatchesAt(s, p, at)}
  IN IF hits = {} THEN 0 ELSE CHOOSE at \in hits : \A o \in hits : at <= o

\* index of the first atom c in s at or after from, or 0
FirstAt(s, c, from) ==
  LET hits == {k \in from..Len(s) : s[k] = c}
  IN IF hits = {} THEN 0 ELSE CHOOSE k \in hits : \A o \in hits : k <= o

\* index of the last atom of s that belongs to cs, or 0
LastIn(s, cs) ==
  LET hits == {k \in 1..Len(s) : s[k] \in cs}
  IN IF hits = {} THEN 0 ELSE CHOOSE k \in hits : \A o \in hits : k >= o

RECURSIVE Flatten(_)
Flatten(ss) == IF ss = <<>> THEN <<>> ELSE Head(ss) \o Flatten(Tail(ss))

Zeros(n) == [k \in 1..n |-> 0]

(***************************************************************************)
(* Image codec: src/convert/imageUtils.ts                                  *)
(***************************************************************************)
MIME_TYPES ==
  [e \in {".jpg", ".jpeg", ".png", ".gif", ".svg", ".webp", ".bmp",
          ".ico", ".tiff", ".tif"} |->
     CASE e \in {".jpg", ".jpeg"} -> "image/jpeg"
       [] e = ".png" -> "image/png"
       [] e = ".gif" -> "image/gif"
       [] e = ".svg" -> "image/svg+xml"
       [] e = ".webp" -> "image/webp"
       [] e = ".bmp" -> "image/bmp"
       [] e = ".ico" -> "image/x-icon"
       [] OTHER -> "image/tiff"]

SUPPORTED_IMAGE_EXTENSIONS == DOMAIN MIME_TYPES

\* atoms that start with a dot: "." itself and the extension atoms
DotAtoms ==
  SUPPORTED_IMAGE_EXTENSIONS \cup {".", ".PNG", ".GIF", ".txt", ".md", ".MD", ".markdown"}

\* String.prototype.toLowerCase on one atom; all other atoms are lower case
LowerAtom(c) ==
  CASE c = ".PNG" -> ".png"
    [] c = ".GIF" -> ".gif"
    [] c = ".MD" -> ".md"
    [] OTHER -> c

toLowerCase(s) == [k \in 1..Len(s) |-> LowerAtom(s[k])]

\* path.basename: the text after the last separator
basename(p) == Drop(p, LastIn(p, {"/"}) + 1)

\* path.extname: from the last dot of the base name to its end; empty when
\* there is no dot or the only dot starts the base name
extname(p) ==
  LET base == basename(p)
      d == LastIn(base, DotAtoms)
  IN IF d <= 1 THEN <<>> ELSE Drop(base, d)

isImageFile(filePath) ==
  LET ext == toLowerCase(extname(filePath))
  IN Len(ext) = 1 /\ ext[1] \in DOMAIN MIME_TYPES

\* the MIME type, or "null"
getImageMimeType(filePath) ==
  LET ext == toLowerCase(extname(filePath))
  IN IF Len(ext) = 1 /\ ext[1] \in DOMAIN MIME_TYPES
     THEN MIME_TYPES[ext[1]] ELSE "null"

\* the base64 alphabet of Buffer.prototype.toString('base64')
B64 ==
  << "A", "B", "C", "D", "E", "F", "G", "H", "I", "J", "K", "L", "M",
     "N", "O", "P", "Q", "R", "S", "T", "U", "V", "W", "X", "Y", "Z",
     "a", "b", "c", "d", "e", "f", "g", "h", "i", "j", "k", "l", "m",
     "n", "o", "p", "q", "r", "s", "t", "u", "v", "w", "x", "y", "z",
     "0", "1", "2", "3", "4", "5", "6", "7", "8", "9", "+", "/" >>

\* EncodeGroup without the "=" padding of a short last group
EncodeGroupUnpadded(g) ==
  LET b1 == g[1]
      b2 == IF Len(g) >= 2 THEN g[2] ELSE 0
      b3 == IF Len(g) >= 3 THEN g[3] ELSE 0
      n == b1 * 65536 + b2 * 256 + b3
  IN SubSeq(<< B64[(n \div 262144) + 1],
               B64[((n \div 4096) % 64) + 1],
               B64[((n \div 64) % 64) + 1],
               B64[(n % 64) + 1] >>, 1, Len(g) + 1)

\* one group of 1..3 bytes gives 4 characters, padded with "="
EncodeGroup(g) ==
  LET b1 == g[1]
      b2 == IF Len(g) >= 2 THEN g[2] ELSE 0
      b3 == IF Len(g) >= 3 THEN g[3] ELSE 0
      n == b1 * 65536 + b2 * 256 + b3
  IN << B64[(n \div 262144) + 1],
        B64[((n \div 4096) % 64) + 1],
        IF Len(g) >= 2 THEN B64[((n \div 64) % 64) + 1] ELSE "=",
        IF Len(g) >= 3 THEN B64[(n % 64) + 1] ELSE "=" >>

RECURSIVE Base64Encode(_)
Base64Encode(bytes) ==
  IF bytes = <<>> THEN <<>>
  ELSE EncodeGroup(SubSeq(bytes, 1, Min(3, Len(bytes))))
         \o Base64Encode(Drop(bytes, 4))

B64Index(c) == (CHOOSE k \in 1..64 : B64[k] = c) - 1

\* four characters give back 1..3 bytes
DecodeGroup(q) ==
  LET v(k) == IF q[k] = "=" THEN 0 ELSE B64Index(q[k])
      n == v(1) * 262144 + v(2) * 4096 + v(3) * 64 + v(4)
      all == << n \div 65536, (n \div 256) % 256, n % 256 >>
  IN IF q[3] = "=" THEN SubSeq(all, 1, 1)
     ELSE IF q[4] = "=" THEN SubSeq(all, 1, 2)
     ELSE all

RECURSIVE Base64Decode(_)
Base64Decode(chars) ==
  IF Len(chars) < 4 THEN <<>>
  ELSE DecodeGroup(SubSeq(chars, 1, 4)) \o Base64Decode(Drop(chars, 5))

generateDataUri(imageBuffer, mimeType) ==
  <<"data:", mimeType, ";base64,">> \o Base64Encode(imageBuffer)

\* the data URI, or <<"null">> for an unsupported extension
generateDataUriFromPath(imageBuffer, filePath) ==
  LET mimeType == getImageMimeType(filePath)
  IN IF mimeType = "null" THEN <<"null">>
     ELSE generateDataUri(imageBuffer, mimeType)

(***************************************************************************)
(* Paths (node:path, POSIX) and the filesystem.                            *)
(***************************************************************************)
\* the characters of the scheme atoms, as far as path handling sees them
ExpandAtom(c) ==
  CASE c = "http://" -> <<"http:", "/", "/">>
    [] c = "https://" -> <<"https:", "/", "/">>
    [] c = "ftp://" -> <<"ftp:", "/", "/">>
    [] OTHER -> <<c>>

ExpandPath(p) == Flatten([k \in 1..Len(p) |-> ExpandAtom(p[k])])

\* p.split('/') on expanded text
RECURSIVE SplitSegments(_)
SplitSegments(p) ==
  LET sep == FirstAt(p, "/", 1)
  IN IF sep = 0 THEN <<p>>
     ELSE <<SubSeq(p, 1, sep - 1)>> \o SplitSegments(Drop(p, sep + 1))

\* drop empty and "." segments, let ".." remove the segment before it
RECURSIVE NormalizeSegments(_, _)
NormalizeSegments(segs, acc) ==
  IF segs = <<>> THEN acc
  ELSE LET seg == Head(segs)
       IN IF seg = <<>> \/ seg = <<".">>
          THEN NormalizeSegments(Tail(segs), acc)
          ELSE IF seg = <<".", ".">>
          THEN NormalizeSegments(Tail(segs),
                 IF acc = <<>> THEN acc ELSE SubSeq(acc, 1, Len(acc) - 1))
          ELSE NormalizeSegments(Tail(segs), Append(acc, seg))

JoinSegments(segs) ==
  IF segs = <<>> THEN <<"/">>
  ELSE Flatten([k \in 1..Len(segs) |-> <<"/">> \o segs[k]])

\* path.normalize of an absolute path
NormalizeAbs(p) == JoinSegments(NormalizeSegments(SplitSegments(ExpandPath(p)), <<>>))

isAbsolute(p) == p # <<>> /\ ExpandPath(p)[1] = "/"

\* path.resolve(base, p) for an absolute base
resolve(base, p) ==
  IF isAbsolute(p) THEN NormalizeAbs(p) ELSE NormalizeAbs(base \o <<"/">> \o p)

\* path.join(a, b)
join(a, b) == NormalizeAbs(a \o <<"/">> \o b)

\* path.dirname of a normalised absolute path
dirname(p) ==
  LET sep == LastIn(p, {"/"})
  IN IF sep <= 1 THEN <<"/">> ELSE SubSeq(p, 1, sep - 1)

\* path.relative(from, to) for a path to below the directory from
relative(from, to) ==
  IF from = <<"/">> THEN Drop(to, 2) ELSE Drop(to, Len(from) + 2)

\* the directories above path p
RECURSIVE Ancestors(_)
Ancestors(p) ==
  IF p = <<"/">> THEN {} ELSE {dirname(p)} \cup Ancestors(dirname(p))

\* p lies strictly below the directory d
IsBelow(p, d) ==
  IF d = <<"/">> THEN p # d
  ELSE Len(p) > Len(d) /\ SubSeq(p, 1, Len(d)) = d /\ p[Len(d) + 1] = "/"

\* p is an immediate entry of the directory d
IsEntryOf(p, d) == IsBelow(p, d) /\ dirname(p) = d

\* A filesystem maps normalised absolute paths to nodes
\*   [kind: "file" | "dir", text, bytes, readable, removable]
\* where text is what a file holds read as utf-8 and bytes what it holds read
\* as a buffer; the model reads a file one way only, so it keeps one of them
TextFile(text) ==
  [kind |-> "file", text |-> text, bytes |-> <<>>, readable |-> TRUE, removable |-> TRUE]

ImageFile(bytes) ==
  [kind |-> "file", text |-> <<>>, bytes |-> bytes, readable |-> TRUE, removable |-> TRUE]

DirNode ==
  [kind |-> "dir", text |-> <<>>, bytes |-> <<>>, readable |-> TRUE, removable |-> TRUE]

Exists(f, p) == NormalizeAbs(p) \in DOMAIN f

Node(f, p) == f[NormalizeAbs(p)]

\* the filesystem f with the paths in gone removed
Without(f, gone) == [q \in (DOMAIN f) \ gone |-> f[q]]

\* the filesystem f with node n at path p
With(f, p, n) == [q \in (DOMAIN f) \cup {p} |-> IF q = p THEN n ELSE f[q]]

\* fs/promises.access(filePath, F_OK | R_OK) succeeds
fileExists(f, filePath) == Exists(f, filePath) /\ Node(f, filePath).readable

\* convertImageToBase64: [success, dataUri, error]
convertImageToBase64(f, imagePath) ==
  IF ~fileExists(f, imagePath)
  THEN [success |-> FALSE, dataUri |-> <<>>,
        error |-> <<"Image file not found or not readable: ">> \o imagePath]
  ELSE IF ~isImageFile(imagePath)
  THEN [success |-> FALSE, dataUri |-> <<>>,
        error |-> <<"Unsupported image format: ">> \o imagePath]
  ELSE IF Node(f, imagePath).kind # "file"
  THEN [success |-> FALSE, dataUri |-> <<>>,
        error |-> <<"Failed to read image file ">> \o imagePath]
  ELSE LET dataUri == generateDataUriFromPath(Node(f, imagePath).bytes, imagePath)
       IN IF dataUri = <<"null">>
          THEN [success |-> FALSE, dataUri |-> <<>>,
                error |-> <<"Failed to generate data URI for: ">> \o imagePath]
          ELSE [success |-> TRUE, dataUri |-> dataUri, error |-> <<>>]

(***************************************************************************)
(* Extractor and rewriter: src/convert/markdownProcessor.ts                *)
(***************************************************************************)
\* IMAGE_REGEX = /!\[([^\]]*)\]\(([^)]+)\)/ tried at position at: the index
\* of the closing parenthesis, or 0 when the text does not match there.
\* The alt run cannot hold "]" and the path run cannot hold ")", so each run
\* ends at the first such character.
IMAGE_REGEX(s, at) ==
  IF ~(at + 1 <= Len(s) /\ s[at] = "!" /\ s[at + 1] = "[") THEN 0
  ELSE LET rb == FirstAt(s, "]", at + 2)
       IN IF rb = 0 \/ rb + 1 > Len(s) THEN 0
          ELSE IF s[rb + 1] # "(" THEN 0
          ELSE LET rp == FirstAt(s, ")", rb + 2)
               IN IF rp = 0 \/ rp = rb + 2 THEN 0 ELSE rp

\* the exec loop from lastIndex: every match, leftmost first, none overlapping
RECURSIVE ExecAll(_, _)
ExecAll(s, lastIndex) ==
  LET starts == {at \in lastIndex..Len(s) : IMAGE_REGEX(s, at) # 0}
  IN IF starts = {} THEN <<>>
     ELSE LET at == CHOOSE a \in starts : \A o \in starts : a <= o
              rp == IMAGE_REGEX(s, at)
              rb == FirstAt(s, "]", at + 2)
          IN << [originalMarkdown |-> SubSeq(s, at, rp),
                 altText |-> SubSeq(s, at + 2, rb - 1),
                 imagePath |-> SubSeq(s, rb + 2, rp - 1),
                 index |-> at] >> \o ExecAll(s, rp + 1)

isRemoteImage(imagePath) ==
  imagePath # <<>> /\ imagePath[1] \in {"http://", "https://"}

\* s.split(c)[0]
BeforeFirst(s, c) ==
  LET k == FirstAt(s, c, 1) IN IF k = 0 THEN s ELSE SubSeq(s, 1, k - 1)

cleanImagePath(imagePath) == BeforeFirst(BeforeFirst(imagePath, "?"), "#")

supportedExtensions == {".jpg", ".jpeg", ".png", ".gif", ".svg", ".webp", ".bmp"}

isSupportedImageFormat(imagePath) ==
  LET cleanPath == toLowerCase(cleanImagePath(imagePath))
  IN cleanPath # <<>> /\ cleanPath[Len(cleanPath)] \in supportedExtensions

\* extractImageReferences: the local references, resolved
extractImageReferences(content, markdownFilePath) ==
  LET all == SelectSeq(ExecAll(content, 1), LAMBDA m : ~isRemoteImage(m.imagePath))
      markdownDir == dirname(markdownFilePath)
      ref(m) == [originalMarkdown |-> m.originalMarkdown,
                 imagePath |-> m.imagePath,
                 absoluteImagePath |->
                   IF isAbsolute(m.imagePath) THEN m.imagePath
                   ELSE resolve(markdownDir, m.imagePath),
                 altText |-> m.altText]
  IN [k \in 1..Len(all) |-> ref(all[k])]

\* GetSubstitution of String.prototype.replace for a string pattern: "$$",
\* "$&", "$" with a grave accent and "$'" are expanded; with no capture
\* group every other "$" stays as written.  The atom "GRAVE" is the grave
\* accent character.
RECURSIVE GetSubstitution(_, _, _, _)
GetSubstitution(replacement, matched, before, after) ==
  IF replacement = <<>> THEN <<>>
  ELSE IF replacement[1] = "$" /\ Len(replacement) >= 2
          /\ replacement[2] \in {"$", "&", "GRAVE", "'"}
  THEN (CASE replacement[2] = "$" -> <<"$">>
          [] replacement[2] = "&" -> matched
          [] replacement[2] = "GRAVE" -> before
          [] OTHER -> after)
         \o GetSubstitution(Drop(replacement, 3), matched, before, after)
  ELSE <<replacement[1]>>
         \o GetSubstitution(Drop(replacement, 2), matched, before, after)

\* text.replace(pattern, replacement) with a string pattern: the first
\* occurrence only.  origin carries, for every atom of text, its index in the
\* input document, 0 for an atom the rewrite has inserted.
StringReplace(text, origin, pattern, replacement) ==
  LET at == IndexOf(text, pattern)
  IN IF at = 0 THEN [text |-> text, origin |-> origin]
     ELSE LET before == SubSeq(text, 1, at - 1)
              after == Drop(text, at + Len(pattern))
              put == GetSubstitution(replacement, pattern, before, after)
          IN [text |-> before \o put \o after,
              origin |-> SubSeq(origin, 1, at - 1) \o Zeros(Len(put))
                           \o Drop(origin, at + Len(pattern))]

\* the result object of convertMarkdownImages before the loop
NewResult(content) ==
  [content |-> content, origin |-> [k \in 1..Len(content) |-> k],
   convertedImages |-> 0, skippedImages |-> 0,
   warnings |-> <<>>, errors |-> <<>>]

\* the absolute path the rewriter hands to the codec
AbsoluteImagePath(markdownDir, imagePath) ==
  IF isAbsolute(imagePath) THEN imagePath ELSE resolve(markdownDir, imagePath)

\* what one iteration of the loop over imageMatches does with match m
ImageOutcome(f, markdownDir, m) ==
  IF isRemoteImage(m.imagePath) THEN "remote"
  ELSE IF ~isSupportedImageFormat(m.imagePath) THEN "unsupported"
  ELSE IF convertImageToBase64(f, AbsoluteImagePath(markdownDir, m.imagePath)).success
  THEN "converted"
  ELSE "failed"

\* ProcessImage that leaves a remote reference out of skippedImages
ProcessImageRemoteUncounted(f, markdownDir, r, m) ==
  IF isRemoteImage(m.imagePath)
  THEN [r EXCEPT !.warnings = Append(@, <<"Skipped remote image: ">> \o m.imagePath)]
  ELSE IF ~isSupportedImageFormat(m.imagePath)
  THEN [r EXCEPT !.skippedImages = @ + 1,
                 !.warnings = Append(@, <<"Skipped unsupported image format: ">>
                                          \o m.imagePath)]
  ELSE LET conversionResult ==
             convertImageToBase64(f, AbsoluteImagePath(markdownDir, m.imagePath))
       IN IF conversionResult.success /\ conversionResult.dataUri # <<>>
          THEN LET newMarkdown == <<"!", "[">> \o m.altText \o <<"]", "(">>
                                    \o conversionResult.dataUri \o <<")">>
                   replaced == StringReplace(r.content, r.origin,
                                             m.originalMarkdown, newMarkdown)
               IN [r EXCEPT !.content = replaced.text,
                            !.origin = replaced.origin,
                            !.convertedImages = @ + 1]
          ELSE [r EXCEPT !.skippedImages = @ + 1,
                         !.warnings = Append(@, <<"Failed to convert image: ">>
                                                  \o m.imagePath \o <<" - ">>
                                                  \o conversionResult.error)]

\* one iteration of the loop over imageMatches: r is the result so far with
\* r.content the updatedContent
ProcessImage(f, markdownDir, r, m) ==
  IF isRemoteImage(m.imagePath)
  THEN [r EXCEPT !.skippedImages = @ + 1,
                 !.warnings = Append(@, <<"Skipped remote image: ">> \o m.imagePath)]
  ELSE IF ~isSupportedImageFormat(m.imagePath)
  THEN [r EXCEPT !.skippedImages = @ + 1,
                 !.warnings = Append(@, <<"Skipped unsupported image format: ">>
                                          \o m.imagePath)]
  ELSE LET conversionResult ==
             convertImageToBase64(f, AbsoluteImagePath(markdownDir, m.imagePath))
       IN IF conversionResult.success /\ conversionResult.dataUri # <<>>
          THEN LET newMarkdown == <<"!", "[">> \o m.altText \o <<"]", "(">>
                                    \o conversionResult.dataUri \o <<")">>
                   replaced == StringReplace(r.content, r.origin,
                                             m.originalMarkdown, newMarkdown)
               IN [r EXCEPT !.content = replaced.text,
                            !.origin = replaced.origin,
                            !.convertedImages = @ + 1]
          ELSE [r EXCEPT !.skippedImages = @ + 1,
                         !.warnings = Append(@, <<"Failed to convert image: ">>
                                                  \o m.imagePath \o <<" - ">>
                                                  \o conversionResult.error)]

\* the whole loop, from match k on
RECURSIVE ProcessFrom(_, _, _, _, _)
ProcessFrom(f, markdownDir, r, matches, k) ==
  IF k > Len(matches) THEN r
  ELSE ProcessFrom(f, markdownDir, ProcessImage(f, markdownDir, r, matches[k]),
                   matches, k + 1)

\* convertMarkdownImages(content, markdownFilePath) as a function
ConvertMarkdown(f, content, markdownFilePath) ==
  ProcessFrom(f, dirname(markdownFilePath), NewResult(content),
              ExecAll(content, 1), 1)

(***************************************************************************)
(* Scanner and materializer: src/convert/fileScanner.ts                    *)
(***************************************************************************)
\* the elements of a finite set in a fixed order: fs.readdir returns the
\* entries of a directory in an order that is the same for the same snapshot
RECURSIVE SetToSeq(_)
SetToSeq(S) ==
  IF S = {} THEN <<>>
  ELSE LET x == CHOOSE y \in S : TRUE IN <<x>> \o SetToSeq(S \ {x})

\* fs.readdir(dir): the immediate entries of dir
readdir(f, dir) == SetToSeq({q \in DOMAIN f : IsEntryOf(q, dir)})

isMarkdownFile(filename) ==
  LET ext == toLowerCase(extname(filename))
  IN ext = <<".md">> \/ ext = <<".markdown">>

\* scanDirectory(currentDir), given the entries still to visit: a directory
\* is entered unless it cannot be listed, a markdown file is loaded unless it
\* cannot be read, anything else is passed over
RECURSIVE scanDirectory(_, _, _)
scanDirectory(f, absoluteSourceDir, entries) ==
  IF entries = <<>> THEN <<>>
  ELSE LET fullPath == Head(entries)
           found ==
             IF f[fullPath].kind = "dir"
             THEN IF f[fullPath].readable
                  THEN scanDirectory(f, absoluteSourceDir, readdir(f, fullPath))
                  ELSE <<>>
             ELSE IF isMarkdownFile(fullPath) /\ f[fullPath].readable
             THEN << [relativePath |-> relative(absoluteSourceDir, fullPath),
                      absolutePath |-> fullPath,
                      content |-> f[fullPath].text] >>
             ELSE <<>>
       IN found \o scanDirectory(f, absoluteSourceDir, Tail(entries))

\* scanMarkdownFiles that throws when anything below the root cannot be read
scanMarkdownFilesOrThrow(f, dir) ==
  IF ~Exists(f, dir)
  THEN [error |-> <<"Source directory does not exist: ">> \o dir, files |-> <<>>]
  ELSE IF f[dir].kind # "dir"
  THEN [error |-> <<"Source path is not a directory: ">> \o dir, files |-> <<>>]
  ELSE IF \E q \in DOMAIN f : (q = dir \/ IsBelow(q, dir)) /\ ~f[q].readable
  THEN [error |-> <<"Failed to scan directory ">> \o dir, files |-> <<>>]
  ELSE [error |-> <<>>, files |-> scanDirectory(f, dir, readdir(f, dir))]

\* scanMarkdownFiles(sourceDir): [error, files]; error is <<>> unless the
\* scan throws
scanMarkdownFiles(f, dir) ==
  IF ~Exists(f, dir)
  THEN [error |-> <<"Source directory does not exist: ">> \o dir, files |-> <<>>]
  ELSE IF f[dir].kind # "dir"
  THEN [error |-> <<"Source path is not a directory: ">> \o dir, files |-> <<>>]
  ELSE IF ~f[dir].readable
  THEN [error |-> <<"Failed to scan directory ">> \o dir, files |-> <<>>]
  ELSE [error |-> <<>>, files |-> scanDirectory(f, dir, readdir(f, dir))]

\* some directory above p, or p itself, is a file
BlockedByFile(f, p) ==
  \E q \in Ancestors(p) \cup {p} : q \in DOMAIN f /\ f[q].kind = "file"

\* fs.mkdir(dir, { recursive: true }) where nothing on the way is a file
mkdir(f, dir) ==
  [q \in DOMAIN f \cup {dir} \cup Ancestors(dir) |->
     IF q \in DOMAIN f THEN f[q] ELSE DirNode]

\* clearDirectory that unlinks files and leaves sub-directories in place
clearDirectoryFilesOnly(f, dirPath) ==
  Without(f, {q \in DOMAIN f :
                IsEntryOf(q, dirPath) /\ f[q].removable /\ f[q].kind = "file"})

\* clearDirectory(dirPath) on a listable directory: every immediate entry
\* that can be removed goes, with all it holds; an entry whose removal fails
\* stays
clearDirectory(f, dirPath) ==
  LET removed == {q \in DOMAIN f : IsEntryOf(q, dirPath) /\ f[q].removable}
  IN Without(f, {q \in DOMAIN f : \E e \in removed : q = e \/ IsBelow(q, e)})

\* createOutputDirectory that clears an existing directory before it looks at
\* the overwrite flag
createOutputDirectoryClearsFirst(f, dir, overwriteFlag) ==
  IF Exists(f, dir)
  THEN IF f[dir].kind = "dir"
       THEN IF ~f[dir].readable
            THEN [error |-> <<"Failed to clear directory ">> \o dir, fs |-> f]
            ELSE IF ~overwriteFlag
            THEN [error |-> <<"Output directory already exists: ">> \o dir
                              \o <<". Use --overwrite flag to overwrite.">>,
                  fs |-> clearDirectory(f, dir)]
            ELSE [error |-> <<>>, fs |-> clearDirectory(f, dir)]
       ELSE [error |-> <<"Output path exists but is not a directory: ">> \o dir,
             fs |-> f]
  ELSE IF BlockedByFile(f, dir)
  THEN [error |-> <<"ENOTDIR: not a directory, stat ">> \o dir, fs |-> f]
  ELSE [error |-> <<>>, fs |-> mkdir(f, dir)]

\* createOutputDirectory(outputDir, overwrite): [error, fs]
createOutputDirectory(f, dir, overwriteFlag) ==
  IF Exists(f, dir)
  THEN IF f[dir].kind = "dir"
       THEN IF ~overwriteFlag
            THEN [error |-> <<"Output directory already exists: ">> \o dir
                              \o <<". Use --overwrite flag to overwrite.">>,
                  fs |-> f]
            ELSE IF ~f[dir].readable
            THEN [error |-> <<"Failed to clear directory ">> \o dir, fs |-> f]
            ELSE [error |-> <<>>, fs |-> clearDirectory(f, dir)]
       ELSE [error |-> <<"Output path exists but is not a directory: ">> \o dir,
             fs |-> f]
  ELSE IF BlockedByFile(f, dir)
  THEN [error |-> <<"ENOTDIR: not a directory, stat ">> \o dir, fs |-> f]
  ELSE [error |-> <<>>, fs |-> mkdir(f, dir)]

\* fs.appendFile in the place of fs.writeFile: adds to what the file holds
appendFile(f, p, text) ==
  With(f, p, IF p \in DOMAIN f THEN [f[p] EXCEPT !.text = @ \o text]
             ELSE TextFile(text))

\* fs.writeFile(outputPath, content, 'utf-8'): the file then holds content
writeFile(f, p, text) ==
  With(f, p, IF p \in DOMAIN f THEN [f[p] EXCEPT !.text = text]
             ELSE TextFile(text))

\* writeMarkdownFile(outputDir, relativePath, content): [error, fs]
writeMarkdownFile(f, dir, relativePath, text) ==
  LET outputPath == join(dir, relativePath)
      targetDir == dirname(outputPath)
  IN IF BlockedByFile(f, targetDir)
     THEN [error |-> <<"Failed to write file ">> \o outputPath
                       \o <<": Failed to create directory structure ">> \o targetDir,
           fs |-> f]
     ELSE IF outputPath \in DOMAIN f /\ f[outputPath].kind = "dir"
     THEN [error |-> <<"Failed to write file ">> \o outputPath \o <<": EISDIR">>,
           fs |-> mkdir(f, targetDir)]
     ELSE [error |-> <<>>, fs |-> writeFile(mkdir(f, targetDir), outputPath, text)]

generateDefaultOutputDir(dir) == basename(dir) \o <<"-base64">>

(***************************************************************************)
(* State.                                                                  *)
(***************************************************************************)
VARIABLES
  fs,                \* the filesystem
  content,           \* convertMarkdownImages: the document text passed in
  markdownFilePath,  \* convertMarkdownImages: the document's absolute path
  imageMatches,      \* convertMarkdownImages: the collected matches
  cursor,            \* convertMarkdownImages: index of the next match
  result,            \* convertMarkdownImages: the result object
  codecCalls,        \* the calls of convertImageToBase64 made so far
  pc,                \* convertMarkdownImages: "start", "loop" or "done"
  codecPath,         \* convertImageToBase64: the imagePath passed in
  conversionResult,  \* convertImageToBase64: the value it resolved to
  codecPc,           \* convertImageToBase64: "idle", "pending" or "done"
  sourceDir,         \* MarkdownImageConverter: this.sourceDir
  outputDir,         \* MarkdownImageConverter: this.outputDir
  options,           \* MarkdownImageConverter: this.options
  phase,             \* convert(): where the run is
  markdownFiles,     \* convert(): the files the scan returned
  fileIndex,         \* convert(): index i of the file loop
  convertResult,     \* convert(): the aggregate result
  written,           \* convert(): the output paths written in this run
  fileResults,       \* convert(): what processMarkdownFile did for each file
  fsAtStart,         \* the filesystem as it was when this run began
  runs,              \* the earlier runs: filesystem before and after, result
  cwd,               \* process.cwd() of the caller of the entry point
  sourceArg,         \* convert/index: the sourceDir argument as passed in
  entryPc,           \* convert/index: where convertMarkdownImages(sourceDir, options) is
  lastIndex,         \* IMAGE_REGEX.lastIndex, shared by every call of the module
  calls,             \* the overlapping calls of markdownProcessor, one record each
  running,           \* the call that holds the thread, 0 when none does
  scanRoot,          \* scanMarkdownFiles: the sourceDir passed in
  scanResult,        \* scanMarkdownFiles: what it returned or threw
  scanPc,            \* scanMarkdownFiles: "idle", "pending" or "done"
  pollArgs,          \* pollExportStatus: the arguments passed after params
  maxRetries,        \* pollExportStatus: the maxRetries parameter
  interval,          \* pollExportStatus: the interval parameter
  attempt,           \* pollExportStatus: the loop variable i
  responses,         \* pollExportStatus: what each request made so far came to
  pollPc,            \* pollExportStatus: where the call is
  pollResult,        \* pollExportStatus: the value it resolved to
  thrownAt           \* the matches at which the awaited codec call threw

rewriterVars ==
  <<content, markdownFilePath, imageMatches, cursor, result, codecCalls, pc>>

codecVars == <<codecPath, conversionResult, codecPc>>

converterVars ==
  <<sourceDir, outputDir, options, phase, markdownFiles, fileIndex,
    convertResult, written, fileResults, fsAtStart, runs>>

entryVars == <<cwd, sourceArg, entryPc>>

overlapVars == <<lastIndex, calls, running>>

scanVars == <<scanRoot, scanResult, scanPc>>

pollVars ==
  <<pollArgs, maxRetries, interval, attempt, responses, pollPc, pollResult>>

faultVars == <<thrownAt>>

(***************************************************************************)
(* Inputs of the rewriter: documents put together from fragments, and the  *)
(* image files that may exist next to the document.                        *)
(***************************************************************************)
Fragments ==
  { <<"t">>,
    <<"!", "[", "a", "]", "(", "e", ".png", ")">>,
    <<"!", "[", "r", "]", "(", "http://", "h", "/", "e", ".png", ")">>,
    <<"!", "[", "s", "]", "(", "https://", "h", "/", "e", ".png", ")">>,
    <<"!", "[", "f", "]", "(", "ftp://", "h", "/", "f", ".gif", ")">>,
    <<"!", "[", "$", "&", "]", "(", ".", "/", "e", ".png", ")">>,
    <<"!", "[", "a", "]", "(", "x">>,
    <<"!", "[", "u", "]", "(", "n", ".txt", ")">>,
    <<"!", "[", "]", "(", "m", ".png", ")">>,
    <<"!", "[", "q", "]", "(", "e", ".png", "?", "v", ")">>,
    <<"!", "[", "i", "]", "(", "i", ".ico", ")">> }

Documents ==
  {Flatten(fragments) :
     fragments \in UNION {[1..n -> Fragments] : n \in 0..MaxFragments}}

DocDir == <<"/", "d">>

DocPath == <<"/", "d", "/", "doc", ".md">>

\* the image files that may exist: e.png next to the document, and a
\* zero-byte file at the place an ftp reference resolves to
ImageFiles ==
  { [path |-> <<"/", "d", "/", "e", ".png">>, node |-> ImageFile(<<77>>)],
    [path |-> <<"/", "d", "/", "ftp:", "/", "h", "/", "f", ".gif">>,
     node |-> ImageFile(<<>>)] }

\* the filesystem that holds exactly the given files and their directories
MakeFs(files) ==
  LET filePaths == {file.path : file \in files}
      dirs == UNION {Ancestors(q) : q \in filePaths} \cup {<<"/">>}
  IN [q \in filePaths \cup dirs |->
        IF q \in filePaths
        THEN (CHOOSE file \in files : file.path = q).node
        ELSE DirNode]

RewriterIdle ==
  /\ content = <<>>
  /\ markdownFilePath = DocPath
  /\ imageMatches = <<>>
  /\ cursor = 1
  /\ result = NewResult(<<>>)
  /\ codecCalls = <<>>
  /\ pc = "idle"

CodecIdle ==
  /\ codecPath = <<>>
  /\ conversionResult = [success |-> FALSE, dataUri |-> <<>>, error |-> <<>>]
  /\ codecPc = "idle"

RewriterInit ==
  /\ content \in Documents
  /\ markdownFilePath = DocPath
  /\ \E images \in SUBSET ImageFiles :
       fs = MakeFs(images \cup {[path |-> DocPath, node |-> TextFile(content)]})
  /\ imageMatches = <<>>
  /\ cursor = 1
  /\ result = NewResult(content)
  /\ codecCalls = <<>>
  /\ pc = "start"

(***************************************************************************)
(* convertMarkdownImages(content, markdownFilePath), one step per loop     *)
(* iteration.                                                              *)
(***************************************************************************)
\* the loop that collects every match of IMAGE_REGEX, remote ones included
CollectMatches ==
  /\ pc = "start"
  /\ imageMatches' = ExecAll(content, 1)
  /\ result' = NewResult(content)
  /\ cursor' = 1
  /\ pc' = "loop"
  /\ UNCHANGED <<fs, content, markdownFilePath, codecCalls, codecVars, converterVars, entryVars,
                 overlapVars, scanVars, pollVars, faultVars>>

\* ProcessNext that keeps only the latest warning
ProcessNextKeepsLastWarning(kind) ==
  /\ pc = "loop"
  /\ cursor <= Len(imageMatches)
  /\ LET m == imageMatches[cursor]
         markdownDir == dirname(markdownFilePath)
     IN /\ ImageOutcome(fs, markdownDir, m) = kind
        /\ result' = [ProcessImage(fs, markdownDir, result, m) EXCEPT
                        !.warnings = IF @ = <<>> THEN @ ELSE <<@[Len(@)]>>]
        /\ codecCalls' =
             IF kind \in {"converted", "failed"}
             THEN Append(codecCalls,
                         [match |-> cursor,
                          imagePath |-> AbsoluteImagePath(markdownDir, m.imagePath)])
             ELSE codecCalls
  /\ cursor' = cursor + 1
  /\ UNCHANGED <<fs, content, markdownFilePath, imageMatches, pc, codecVars,
                 converterVars, entryVars,
                 overlapVars, scanVars, pollVars, faultVars>>

\* one iteration of the loop over imageMatches whose outcome is kind
ProcessNext(kind) ==
  /\ pc = "loop"
  /\ cursor <= Len(imageMatches)
  /\ LET m == imageMatches[cursor]
         markdownDir == dirname(markdownFilePath)
     IN /\ ImageOutcome(fs, markdownDir, m) = kind
        /\ result' = ProcessImage(fs, markdownDir, result, m)
        /\ codecCalls' =
             IF kind \in {"converted", "failed"}
             THEN Append(codecCalls,
                         [match |-> cursor,
                          imagePath |-> AbsoluteImagePath(markdownDir, m.imagePath)])
             ELSE codecCalls
  /\ cursor' = cursor + 1
  /\ UNCHANGED <<fs, content, markdownFilePath, imageMatches, pc, codecVars,
                 converterVars, entryVars,
                 overlapVars, scanVars, pollVars, faultVars>>

SkipRemote == ProcessNext("remote")

SkipUnsupported == ProcessNext("unsupported")

ConvertImage == ProcessNext("converted")

FailImage == ProcessNext("failed")

\* result.content = updatedContent; return result
ReturnResult ==
  /\ pc = "loop"
  /\ cursor > Len(imageMatches)
  /\ pc' = "done"
  /\ UNCHANGED <<fs, content, markdownFilePath, imageMatches, cursor, result,
                 codecCalls, codecVars, converterVars, entryVars,
                 overlapVars, scanVars, pollVars, faultVars>>

\* the catch of one iteration: the occurrence counts as skipped and the
\* message goes to errors; updatedContent is not touched
CatchImageError(r, m, errorMessage) ==
  [r EXCEPT !.skippedImages = @ + 1,
            !.errors = Append(@, <<"Error processing image ">> \o m.imagePath
                                   \o <<": ">> \o errorMessage)]

\* what a thrown value gives as error.message or String(error)
ThrownMessages == { <<"EMFILE">>, <<>> }

\* an iteration whose awaited convertImageToBase64 throws: the only call of
\* the iteration into another module, reached by a local reference of a
\* supported format
ThrowInImage ==
  /\ pc = "loop"
  /\ cursor <= Len(imageMatches)
  /\ LET m == imageMatches[cursor]
         markdownDir == dirname(markdownFilePath)
     IN /\ ~isRemoteImage(m.imagePath)
        /\ isSupportedImageFormat(m.imagePath)
        /\ \E errorMessage \in ThrownMessages :
             result' = CatchImageError(result, m, errorMessage)
        /\ codecCalls' =
             Append(codecCalls,
                    [match |-> cursor,
                     imagePath |-> AbsoluteImagePath(markdownDir, m.imagePath)])
  /\ cursor' = cursor + 1
  /\ thrownAt' = thrownAt \cup {cursor}
  /\ UNCHANGED <<fs, content, markdownFilePath, imageMatches, pc, codecVars,
                 converterVars, entryVars, overlapVars, scanVars, pollVars>>

RewriterNext ==
  \/ CollectMatches
  \/ SkipRemote
  \/ SkipUnsupported
  \/ ConvertImage
  \/ FailImage
  \/ ReturnResult

(***************************************************************************)
(* convertImageToBase64(imagePath) on its own: one image file of a         *)
(* supported extension with some bytes.                                    *)
(***************************************************************************)
ByteValues == {0, 77, 255}

Buffers == UNION {[1..n -> ByteValues] : n \in 0..MaxBytes}

CodecInit ==
  /\ \E ext \in SUPPORTED_IMAGE_EXTENSIONS \cup {".PNG"}, imageBuffer \in Buffers :
       /\ codecPath = <<"/", "d", "/", "e", ext>>
       /\ fs = MakeFs({[path |-> codecPath, node |-> ImageFile(imageBuffer)]})
  /\ conversionResult = [success |-> FALSE, dataUri |-> <<>>, error |-> <<>>]
  /\ codecPc = "pending"

\* the paths convertImageToBase64 may be called with: supported extensions
\* in either case, an unsupported one, none
CodecPaths ==
  { <<"/", "d", "/", "e", ".png">>, <<"/", "d", "/", "e", ".PNG">>,
    <<"/", "d", "/", "i", ".ico">>, <<"/", "d", "/", "n", ".txt">>,
    <<"/", "d", "/", "e">> }

\* what may be at the path: a file with some bytes, a file or a directory
\* that access() refuses, a directory
CodecNodes ==
  {ImageFile(imageBuffer) : imageBuffer \in Buffers}
    \cup {[ImageFile(<<77>>) EXCEPT !.readable = FALSE],
          DirNode, [DirNode EXCEPT !.readable = FALSE]}

\* convertImageToBase64(imagePath) for any path, whatever is there
CodecAnyInit ==
  /\ codecPath \in CodecPaths
  /\ \E present \in BOOLEAN, node \in CodecNodes :
       fs = MakeFs(IF present THEN {[path |-> codecPath, node |-> node]} ELSE {})
  /\ conversionResult = [success |-> FALSE, dataUri |-> <<>>, error |-> <<>>]
  /\ codecPc = "pending"

\* EncodeImage whose promise rejects when readFile fails
EncodeImageRejects ==
  /\ codecPc = "pending"
  /\ conversionResult' = convertImageToBase64(fs, codecPath)
  /\ codecPc' = IF conversionResult'.error # <<>>
                   /\ conversionResult'.error[1] = "Failed to read image file "
                THEN "rejected" ELSE "done"
  /\ UNCHANGED <<fs, codecPath, rewriterVars, converterVars, entryVars,
                 overlapVars, scanVars, pollVars, faultVars>>

\* the promise of convertImageToBase64 settles: every path through the body
\* returns a value, the outer catch included
EncodeImage ==
  /\ codecPc = "pending"
  /\ conversionResult' = convertImageToBase64(fs, codecPath)
  /\ codecPc' = "done"
  /\ UNCHANGED <<fs, codecPath, rewriterVars, converterVars, entryVars,
                 overlapVars, scanVars, pollVars, faultVars>>

(***************************************************************************)
(* MarkdownImageConverter.convert(): src/convert/converter.ts              *)
(***************************************************************************)
MaxRuns == 2

SourceRoot == <<"/", "s">>

OutputRoots == { <<"/", "o">>, <<"/", "s">>, <<"/", "s", "/", "o">> }

DocA == <<"t", "!", "[", "a", "]", "(", "e", ".png", ")">>

DocB ==
  << "!", "[", "r", "]", "(", "http://", "h", "/", "e", ".png", ")",
     "!", "[", "]", "(", "m", ".png", ")",
     "!", "[", "a", "]", "(", ".", ".", "/", "e", ".png", ")" >>

At(dir, name, node) == [path |-> dir \o <<"/">> \o name, node |-> node]

Kept(node) == [node EXCEPT !.removable = FALSE]

\* the source trees: none, a file in the place of the root, an empty
\* directory, one document with its image, a nested tree
SourceTrees ==
  { {},
    {[path |-> SourceRoot, node |-> TextFile(<<"t">>)]},
    {[path |-> SourceRoot, node |-> DirNode]},
    {At(SourceRoot, <<"a", ".md">>, TextFile(DocA)),
     At(SourceRoot, <<"e", ".png">>, ImageFile(<<77>>))},
    {At(SourceRoot, <<"a", ".md">>, TextFile(DocA)),
     At(SourceRoot, <<"l", "/", "b", ".md">>, TextFile(DocB)),
     At(SourceRoot, <<"e", ".png">>, ImageFile(<<77>>)),
     At(SourceRoot, <<"n", ".txt">>, TextFile(<<"t">>))} }

\* what may be at the destination root d before the first run: nothing, a
\* file, an empty directory, entries of an earlier output, entries that
\* cannot be removed, entries of both kinds
DestinationTrees(d) ==
  { {},
    {[path |-> d, node |-> TextFile(<<"t">>)]},
    {[path |-> d, node |-> DirNode]},
    {At(d, <<"old", ".txt">>, TextFile(<<"t">>)),
     At(d, <<"sub", "/", "x", ".png">>, ImageFile(<<0>>))},
    {At(d, <<"keep", ".txt">>, Kept(TextFile(<<"t">>)))},
    {At(d, <<"a", ".md">>, Kept(TextFile(<<"old">>))),
     At(d, <<"l">>, Kept(TextFile(<<"t">>)))},
    {At(d, <<"keep", ".txt">>, Kept(TextFile(<<"t">>))),
     At(d, <<"old", ".txt">>, TextFile(<<"t">>)),
     At(d, <<"sub", "/", "x", ".png">>, ImageFile(<<0>>))} }

\* no entry lies below a file
WellFormed(entries) ==
  \A a \in entries, b \in entries :
    ~(a.node.kind = "file" /\ IsBelow(b.path, a.path))

NewConvertResult ==
  [totalFiles |-> 0, convertedImages |-> 0, skippedImages |-> 0,
   warnings |-> <<>>, errors |-> <<>>]

ConverterIdle ==
  /\ sourceDir = SourceRoot
  /\ outputDir = <<"/", "o">>
  /\ options = [overwrite |-> FALSE]
  /\ phase = "Unused"
  /\ markdownFiles = <<>>
  /\ fileIndex = 1
  /\ convertResult = NewConvertResult
  /\ written = <<>>
  /\ fileResults = <<>>
  /\ fsAtStart = fs
  /\ runs = <<>>

\* new MarkdownImageConverter(sourceDir, outputDir, options)
ConverterInit ==
  /\ sourceDir = SourceRoot
  /\ outputDir \in OutputRoots
  /\ options \in [overwrite : BOOLEAN]
  /\ \E source \in SourceTrees :
       \E destination \in (IF outputDir = SourceRoot THEN {{}}
                           ELSE DestinationTrees(outputDir)) :
         /\ WellFormed(source \cup destination)
         /\ fs = MakeFs(source \cup destination)
  /\ phase = "Idle"
  /\ markdownFiles = <<>>
  /\ fileIndex = 1
  /\ convertResult = NewConvertResult
  /\ written = <<>>
  /\ fileResults = <<>>
  /\ fsAtStart = fs
  /\ runs = <<>>

\* convert() is called
BeginConvert ==
  /\ phase = "Idle"
  /\ phase' = "Scanning"
  /\ convertResult' = NewConvertResult
  /\ markdownFiles' = <<>>
  /\ fileIndex' = 1
  /\ written' = <<>>
  /\ fileResults' = <<>>
  /\ fsAtStart' = fs
  /\ UNCHANGED <<fs, sourceDir, outputDir, options, runs, rewriterVars, codecVars, entryVars,
                 overlapVars, scanVars, pollVars, faultVars>>

\* ScanFails in a convert() that prepares the destination before it scans
ScanFailsAfterPreparing ==
  /\ phase = "Scanning"
  /\ LET scan == scanMarkdownFiles(fs, sourceDir)
     IN /\ scan.error # <<>>
        /\ convertResult' =
             [convertResult EXCEPT
                !.errors = Append(@, <<"Failed to scan markdown files: ">> \o scan.error)]
  /\ fs' = createOutputDirectory(fs, outputDir, options.overwrite).fs
  /\ phase' = "Failed"
  /\ UNCHANGED <<sourceDir, outputDir, options, markdownFiles, fileIndex,
                 written, fileResults, fsAtStart, runs, rewriterVars, codecVars, entryVars,
                 overlapVars, scanVars, pollVars, faultVars>>

\* the scan throws: one error, return
ScanFails ==
  /\ phase = "Scanning"
  /\ LET scan == scanMarkdownFiles(fs, sourceDir)
     IN /\ scan.error # <<>>
        /\ convertResult' =
             [convertResult EXCEPT
                !.errors = Append(@, <<"Failed to scan markdown files: ">> \o scan.error)]
  /\ phase' = "Failed"
  /\ UNCHANGED <<fs, sourceDir, outputDir, options, markdownFiles, fileIndex,
                 written, fileResults, fsAtStart, runs, rewriterVars, codecVars, entryVars,
                 overlapVars, scanVars, pollVars, faultVars>>

\* ScanFindsNothing that pushes the warning and goes on to prepare the output
ScanFindsNothingAndPrepares ==
  /\ phase = "Scanning"
  /\ LET scan == scanMarkdownFiles(fs, sourceDir)
     IN /\ scan.error = <<>>
        /\ scan.files = <<>>
        /\ convertResult' =
             [convertResult EXCEPT
                !.warnings = Append(@, <<"No markdown files found in source directory: ">>
                                         \o sourceDir)]
  /\ phase' = "PreparingOutput"
  /\ UNCHANGED <<fs, sourceDir, outputDir, options, markdownFiles, fileIndex,
                 written, fileResults, fsAtStart, runs, rewriterVars, codecVars, entryVars,
                 overlapVars, scanVars, pollVars, faultVars>>

\* the scan returns no file: one warning, return
ScanFindsNothing ==
  /\ phase = "Scanning"
  /\ LET scan == scanMarkdownFiles(fs, sourceDir)
     IN /\ scan.error = <<>>
        /\ scan.files = <<>>
        /\ convertResult' =
             [convertResult EXCEPT
                !.warnings = Append(@, <<"No markdown files found in source directory: ">>
                                         \o sourceDir)]
  /\ phase' = "Done"
  /\ UNCHANGED <<fs, sourceDir, outputDir, options, markdownFiles, fileIndex,
                 written, fileResults, fsAtStart, runs, rewriterVars, codecVars, entryVars,
                 overlapVars, scanVars, pollVars, faultVars>>

\* the scan returns files
ScanSucceeds ==
  /\ phase = "Scanning"
  /\ LET scan == scanMarkdownFiles(fs, sourceDir)
     IN /\ scan.error = <<>>
        /\ scan.files # <<>>
        /\ markdownFiles' = scan.files
        /\ convertResult' = [convertResult EXCEPT !.totalFiles = Len(scan.files)]
  /\ phase' = "PreparingOutput"
  /\ UNCHANGED <<fs, sourceDir, outputDir, options, fileIndex, written,
                 fileResults, fsAtStart, runs, rewriterVars, codecVars, entryVars,
                 overlapVars, scanVars, pollVars, faultVars>>

\* PrepareOutput in which an entry that cannot be removed makes
\* createOutputDirectory throw
PrepareOutputOrGiveUp ==
  /\ phase = "PreparingOutput"
  /\ LET made == createOutputDirectory(fs, outputDir, options.overwrite)
     IN /\ made.error = <<>>
        /\ fs' = made.fs
        /\ phase' = IF \E q \in DOMAIN made.fs : IsEntryOf(q, outputDir)
                    THEN "Failed" ELSE "ProcessingFiles"
  /\ fileIndex' = 1
  /\ UNCHANGED <<sourceDir, outputDir, options, markdownFiles, convertResult,
                 written, fileResults, fsAtStart, runs, rewriterVars, codecVars, entryVars,
                 overlapVars, scanVars, pollVars, faultVars>>

\* createOutputDirectory succeeds
PrepareOutput ==
  /\ phase = "PreparingOutput"
  /\ LET made == createOutputDirectory(fs, outputDir, options.overwrite)
     IN /\ made.error = <<>>
        /\ fs' = made.fs
  /\ fileIndex' = 1
  /\ phase' = "ProcessingFiles"
  /\ UNCHANGED <<sourceDir, outputDir, options, markdownFiles, convertResult,
                 written, fileResults, fsAtStart, runs, rewriterVars, codecVars, entryVars,
                 overlapVars, scanVars, pollVars, faultVars>>

\* PrepareFails that records the error and goes on to the file loop
PrepareFailsAndGoesOn ==
  /\ phase = "PreparingOutput"
  /\ LET made == createOutputDirectory(fs, outputDir, options.overwrite)
     IN /\ made.error # <<>>
        /\ fs' = made.fs
        /\ convertResult' =
             [convertResult EXCEPT
                !.errors = Append(@, <<"Failed to create output directory: ">>
                                       \o made.error)]
  /\ phase' = "ProcessingFiles"
  /\ UNCHANGED <<sourceDir, outputDir, options, markdownFiles, fileIndex,
                 written, fileResults, fsAtStart, runs, rewriterVars, codecVars, entryVars,
                 overlapVars, scanVars, pollVars, faultVars>>

\* createOutputDirectory throws: one error, return
PrepareFails ==
  /\ phase = "PreparingOutput"
  /\ LET made == createOutputDirectory(fs, outputDir, options.overwrite)
     IN /\ made.error # <<>>
        /\ fs' = made.fs
        /\ convertResult' =
             [convertResult EXCEPT
                !.errors = Append(@, <<"Failed to create output directory: ">>
                                       \o made.error)]
  /\ phase' = "Failed"
  /\ UNCHANGED <<sourceDir, outputDir, options, markdownFiles, fileIndex,
                 written, fileResults, fsAtStart, runs, rewriterVars, codecVars, entryVars,
                 overlapVars, scanVars, pollVars, faultVars>>

\* Accumulate that assigns the counts of the rewrite where it should add them
AccumulateAssigns(aggregate, conversion) ==
  [aggregate EXCEPT
     !.convertedImages = conversion.convertedImages,
     !.skippedImages = conversion.skippedImages,
     !.warnings = @ \o conversion.warnings,
     !.errors = @ \o conversion.errors]

\* processMarkdownFile: the counts and diagnostics of the rewrite are added
\* to the aggregate before the file is written
Accumulate(aggregate, conversion) ==
  [aggregate EXCEPT
     !.convertedImages = @ + conversion.convertedImages,
     !.skippedImages = @ + conversion.skippedImages,
     !.warnings = @ \o conversion.warnings,
     !.errors = @ \o conversion.errors]

\* what processMarkdownFile did for one file: the value convertMarkdownImages
\* resolved to (its counts and diagnostics) and the error thrown, <<>> if none
FileResult(file, conversion, thrown) ==
  [relativePath |-> file.relativePath,
   convertedImages |-> conversion.convertedImages,
   skippedImages |-> conversion.skippedImages,
   warnings |-> conversion.warnings,
   errors |-> conversion.errors,
   thrown |-> thrown]

\* one iteration of the file loop in which the file is written
ProcessFile ==
  /\ phase = "ProcessingFiles"
  /\ fileIndex <= Len(markdownFiles)
  /\ LET file == markdownFiles[fileIndex]
         conversion == ConvertMarkdown(fs, file.content, file.absolutePath)
         wrote == writeMarkdownFile(fs, outputDir, file.relativePath, conversion.content)
     IN /\ wrote.error = <<>>
        /\ convertResult' = Accumulate(convertResult, conversion)
        /\ fs' = wrote.fs
        /\ written' = Append(written, join(outputDir, file.relativePath))
        /\ fileResults' = Append(fileResults, FileResult(file, conversion, <<>>))
  /\ fileIndex' = fileIndex + 1
  /\ UNCHANGED <<sourceDir, outputDir, options, phase, markdownFiles,
                 fsAtStart, runs, rewriterVars, codecVars, entryVars,
                 overlapVars, scanVars, pollVars, faultVars>>

\* ProcessFileFails that ends the run at the first file that throws
ProcessFileFailsAndStops ==
  /\ phase = "ProcessingFiles"
  /\ fileIndex <= Len(markdownFiles)
  /\ LET file == markdownFiles[fileIndex]
         conversion == ConvertMarkdown(fs, file.content, file.absolutePath)
         wrote == writeMarkdownFile(fs, outputDir, file.relativePath, conversion.content)
         accumulated == Accumulate(convertResult, conversion)
     IN /\ wrote.error # <<>>
        /\ convertResult' =
             [accumulated EXCEPT
                !.errors = @ \o
                  << <<"Failed to write converted file ">> \o file.relativePath
                       \o <<": ">> \o wrote.error,
                     <<"Error processing file ">> \o file.relativePath
                       \o <<": ">> \o wrote.error,
                     <<"Failed to process file ">> \o file.relativePath
                       \o <<": ">> \o wrote.error >>]
        /\ fs' = wrote.fs
        /\ fileResults' = Append(fileResults, FileResult(file, conversion, wrote.error))
  /\ fileIndex' = fileIndex + 1
  /\ phase' = "Failed"
  /\ UNCHANGED <<sourceDir, outputDir, options, markdownFiles, written,
                 fsAtStart, runs, rewriterVars, codecVars, entryVars,
                 overlapVars, scanVars, pollVars, faultVars>>

\* one iteration of the file loop in which writing throws: the error is
\* recorded where it is caught, three times, and the loop goes on
ProcessFileFails ==
  /\ phase = "ProcessingFiles"
  /\ fileIndex <= Len(markdownFiles)
  /\ LET file == markdownFiles[fileIndex]
         conversion == ConvertMarkdown(fs, file.content, file.absolutePath)
         wrote == writeMarkdownFile(fs, outputDir, file.relativePath, conversion.content)
         accumulated == Accumulate(convertResult, conversion)
     IN /\ wrote.error # <<>>
        /\ convertResult' =
             [accumulated EXCEPT
                !.errors = @ \o
                  << <<"Failed to write converted file ">> \o file.relativePath
                       \o <<": ">> \o wrote.error,
                     <<"Error processing file ">> \o file.relativePath
                       \o <<": ">> \o wrote.error,
                     <<"Failed to process file ">> \o file.relativePath
                       \o <<": ">> \o wrote.error >>]
        /\ fs' = wrote.fs
        /\ fileResults' = Append(fileResults, FileResult(file, conversion, wrote.error))
  /\ fileIndex' = fileIndex + 1
  /\ UNCHANGED <<sourceDir, outputDir, options, phase, markdownFiles, written,
                 fsAtStart, runs, rewriterVars, codecVars, entryVars,
                 overlapVars, scanVars, pollVars, faultVars>>

\* the file loop is over: return result
\* FinishConvert in a file loop that starts over when it reaches the end
FinishConvertStartsOver ==
  /\ phase = "ProcessingFiles"
  /\ fileIndex > Len(markdownFiles)
  /\ fileIndex' = 1
  /\ UNCHANGED <<fs, sourceDir, outputDir, options, phase, markdownFiles,
                 convertResult, written, fileResults, fsAtStart, runs, rewriterVars,
                 codecVars, entryVars, overlapVars, scanVars, pollVars, faultVars>>

\* the loop is over: summary, return result
FinishConvert ==
  /\ phase = "ProcessingFiles"
  /\ fileIndex > Len(markdownFiles)
  /\ phase' = "Done"
  /\ UNCHANGED <<fs, sourceDir, outputDir, options, markdownFiles, fileIndex,
                 convertResult, written, fileResults, fsAtStart, runs, rewriterVars, codecVars, entryVars,
                 overlapVars, scanVars, pollVars, faultVars>>

\* the caller builds a converter with the same arguments and converts again
ConvertAgain ==
  /\ phase \in {"Done", "Failed"}
  /\ Len(runs) < MaxRuns - 1
  /\ runs' = Append(runs, [before |-> fsAtStart, after |-> fs,
                           result |-> convertResult, phase |-> phase,
                           written |-> written])
  /\ phase' = "Idle"
  /\ UNCHANGED <<fs, sourceDir, outputDir, options, markdownFiles, fileIndex,
                 convertResult, written, fileResults, fsAtStart, rewriterVars, codecVars, entryVars,
                 overlapVars, scanVars, pollVars, faultVars>>

ConverterNext ==
  \/ BeginConvert
  \/ ScanFails
  \/ ScanFindsNothing
  \/ ScanSucceeds
  \/ PrepareOutput
  \/ PrepareFails
  \/ ProcessFile
  \/ ProcessFileFails
  \/ FinishConvert
  \/ ConvertAgain

(***************************************************************************)
(* The entry point convertMarkdownImages(sourceDir, options):              *)
(* src/convert/index.ts                                                    *)
(***************************************************************************)
WorkingDirs == { <<"/">>, <<"/", "w">> }

SourceArgs == { <<"/", "s">>, <<"s">> }

\* options.output: <<>> when the caller gives none
OutputOptions == { <<>>, <<"/", "o">>, <<"/", "s", "/", "o">> }

\* the destination root the entry point computes
EntryOutputDir(workingDir, dir, output) ==
  IF output # <<>> THEN resolve(workingDir, output)
  ELSE NormalizeAbs(resolve(workingDir, dir) \o <<"-base64">>)

\* this.outputDir as the constructor of MarkdownImageConverter computes it
ConstructorOutputDir(workingDir, dir, output) ==
  IF output # <<>> THEN resolve(workingDir, output)
  ELSE resolve(workingDir, generateDefaultOutputDir(resolve(workingDir, dir)))

EntryIdle ==
  /\ cwd = <<"/">>
  /\ sourceArg = SourceRoot
  /\ entryPc = "Unused"

\* convertMarkdownImages(sourceArg, options) is called in directory cwd
EntryInit ==
  /\ cwd \in WorkingDirs
  /\ sourceArg \in SourceArgs
  /\ options \in [overwrite : BOOLEAN, output : OutputOptions]
  /\ entryPc = "Called"
  /\ \E source \in SourceTrees :
       \E destination \in
            DestinationTrees(EntryOutputDir(cwd, sourceArg, options.output)) :
         /\ WellFormed(source \cup destination)
         /\ fs = MakeFs(source \cup destination)
  /\ sourceDir = SourceRoot
  /\ outputDir = <<"/", "o">>
  /\ phase = "Unused"
  /\ markdownFiles = <<>>
  /\ fileIndex = 1
  /\ convertResult = NewConvertResult
  /\ written = <<>>
  /\ fileResults = <<>>
  /\ fsAtStart = fs
  /\ runs = <<>>

\* the source directory does not exist: throw
EntryRejectsMissingSource ==
  /\ entryPc = "Called"
  /\ ~Exists(fs, resolve(cwd, sourceArg))
  /\ entryPc' = "Rejected"
  /\ UNCHANGED <<fs, cwd, sourceArg, rewriterVars, codecVars, converterVars,
                 overlapVars, scanVars, pollVars, faultVars>>

\* the output directory exists and overwrite is not set: throw
EntryRejectsExistingOutput ==
  /\ entryPc = "Called"
  /\ Exists(fs, resolve(cwd, sourceArg))
  /\ Exists(fs, EntryOutputDir(cwd, sourceArg, options.output))
  /\ ~options.overwrite
  /\ entryPc' = "Rejected"
  /\ UNCHANGED <<fs, cwd, sourceArg, rewriterVars, codecVars, converterVars,
                 overlapVars, scanVars, pollVars, faultVars>>

\* new MarkdownImageConverter(resolvedSourceDir, outputDir, options), and
\* convert() is awaited
EntryConstructs ==
  /\ entryPc = "Called"
  /\ Exists(fs, resolve(cwd, sourceArg))
  /\ ~(Exists(fs, EntryOutputDir(cwd, sourceArg, options.output)) /\ ~options.overwrite)
  /\ sourceDir' = resolve(cwd, resolve(cwd, sourceArg))
  /\ outputDir' = ConstructorOutputDir(cwd, resolve(cwd, sourceArg),
                                       EntryOutputDir(cwd, sourceArg, options.output))
  /\ phase' = "Idle"
  /\ entryPc' = "Converting"
  /\ UNCHANGED <<fs, cwd, sourceArg, options, markdownFiles, fileIndex,
                 convertResult, written, fileResults, fsAtStart, runs,
                 rewriterVars, codecVars, overlapVars, scanVars, pollVars, faultVars>>

\* convert() has returned its result: the result is displayed and the
\* promise resolves
EntryResolves ==
  /\ entryPc = "Converting"
  /\ phase \in {"Done", "Failed"}
  /\ entryPc' = "Resolved"
  /\ UNCHANGED <<fs, cwd, sourceArg, rewriterVars, codecVars, converterVars,
                 overlapVars, scanVars, pollVars, faultVars>>

EntryNext ==
  \/ EntryRejectsMissingSource
  \/ EntryRejectsExistingOutput
  \/ EntryConstructs
  \/ BeginConvert
  \/ ScanFails
  \/ ScanFindsNothing
  \/ ScanSucceeds
  \/ PrepareOutput
  \/ PrepareFails
  \/ ProcessFile
  \/ ProcessFileFails
  \/ FinishConvert
  \/ EntryResolves

(***************************************************************************)
(* scanMarkdownFiles(sourceDir) on its own: src/convert/fileScanner.ts     *)
(***************************************************************************)
Unreadable(node) == [node EXCEPT !.readable = FALSE]

\* what may be at a place of the tree: nothing, something that can be read,
\* something that cannot
Presence == {"none", "readable", "unreadable"}

\* the entry at path p of the given presence, holding node when present
Placed(presence, p, node) ==
  CASE presence = "none" -> {}
    [] presence = "readable" -> {[path |-> p, node |-> node]}
    [] OTHER -> {[path |-> p, node |-> Unreadable(node)]}

\* the trees below the source root: a document and another file at the top,
\* a sub-directory with a document and a directory with a document below it
ScanTrees ==
  { Placed(a, SourceRoot \o <<"/", "a", ".md">>, TextFile(DocA))
      \cup Placed(n, SourceRoot \o <<"/", "n", ".txt">>, TextFile(<<"t">>))
      \cup Placed(l, SourceRoot \o <<"/", "l">>, DirNode)
      \cup (IF l = "none" THEN {}
            ELSE Placed(b, SourceRoot \o <<"/", "l", "/", "b", ".MD">>, TextFile(DocB))
                   \cup Placed(m, SourceRoot \o <<"/", "l", "/", "m">>, DirNode)
                   \cup (IF m = "none" THEN {}
                         ELSE Placed(c, SourceRoot
                                          \o <<"/", "l", "/", "m", "/", "c", ".markdown">>,
                                     TextFile(<<"t">>)))) :
      a \in Presence, n \in {"none", "readable"}, l \in Presence,
      b \in Presence, m \in Presence, c \in {"none", "readable"} }

\* the source root is missing, a file, a directory or a directory that
\* cannot be listed
ScanInit ==
  /\ scanRoot = SourceRoot
  /\ \/ fs = MakeFs({})
     \/ fs = MakeFs({[path |-> SourceRoot, node |-> TextFile(<<"t">>)]})
     \/ \E tree \in ScanTrees, root \in {DirNode, Unreadable(DirNode)} :
          fs = MakeFs(tree \cup {[path |-> SourceRoot, node |-> root]})
  /\ scanResult = [error |-> <<>>, files |-> <<>>]
  /\ scanPc = "pending"

\* scanMarkdownFiles returns its list or throws
RunScan ==
  /\ scanPc = "pending"
  /\ scanResult' = scanMarkdownFiles(fs, scanRoot)
  /\ scanPc' = "done"
  /\ UNCHANGED <<fs, scanRoot, rewriterVars, codecVars, converterVars, entryVars,
                 overlapVars, pollVars, faultVars>>

(***************************************************************************)
(* Calls of markdownProcessor that overlap.  IMAGE_REGEX is one object of  *)
(* the module, so its lastIndex is shared by every call.  A call runs on   *)
(* the one thread until it awaits or returns; while it awaits, another     *)
(* call may run.                                                           *)
(***************************************************************************)
MaxOverlapFragments == 2

CallIds == {1, 2}

OverlapFragments ==
  { <<"t">>,
    <<"!", "[", "a", "]", "(", "e", ".png", ")">>,
    <<"!", "[", "r", "]", "(", "http://", "h", "/", "e", ".png", ")">> }

OverlapDocuments ==
  {Flatten(fragments) :
     fragments \in UNION {[1..n -> OverlapFragments] : n \in 0..MaxOverlapFragments}}

\* one IMAGE_REGEX.exec(s) of the global regular expression whose lastIndex
\* is from: [match, lastIndex], match being <<>> for null; a failed exec
\* sets lastIndex back to the start
RegExpExec(s, from) ==
  LET found == ExecAll(s, from)
  IN IF found = <<>> THEN [match |-> <<>>, lastIndex |-> 1]
     ELSE [match |-> <<found[1]>>,
           lastIndex |-> found[1].index + Len(found[1].originalMarkdown)]

\* a call that has not run yet
NewCall(kind, text) ==
  [kind |-> kind, content |-> text, pc |-> "ready", imageMatches |-> <<>>,
   cursor |-> 1, result |-> NewResult(text), references |-> <<>>]

\* the references extractImageReferences builds from the matches it met
References(matches, path) ==
  LET all == SelectSeq(matches, LAMBDA m : ~isRemoteImage(m.imagePath))
      markdownDir == dirname(path)
  IN [k \in 1..Len(all) |->
        [originalMarkdown |-> all[k].originalMarkdown,
         imagePath |-> all[k].imagePath,
         absoluteImagePath |-> AbsoluteImagePath(markdownDir, all[k].imagePath),
         altText |-> all[k].altText]]

OverlapInit ==
  /\ lastIndex = 1
  /\ running = 0
  /\ \E first \in OverlapDocuments, second \in OverlapDocuments,
        kind \in {"convert", "extract"} :
       calls = <<NewCall("convert", first), NewCall(kind, second)>>
  /\ \E images \in SUBSET {[path |-> <<"/", "d", "/", "e", ".png">>,
                              node |-> ImageFile(<<77>>)]} :
       fs = MakeFs(images)

\* the call starts on the free thread: IMAGE_REGEX.lastIndex = 0
CallEnters(c) ==
  /\ running = 0
  /\ calls[c].pc = "ready"
  /\ lastIndex' = 1
  /\ calls' = [calls EXCEPT ![c].pc = "collecting"]
  /\ running' = c
  /\ UNCHANGED <<fs, rewriterVars, codecVars, converterVars, entryVars,
                 scanVars, pollVars, faultVars>>

\* ExecOnce in a collecting loop that gives up the thread after each exec
ExecOnceAndYield(c) ==
  /\ running \in {0, c}
  /\ calls[c].pc = "collecting"
  /\ LET found == RegExpExec(calls[c].content, lastIndex)
     IN /\ lastIndex' = found.lastIndex
        /\ calls' =
             IF found.match # <<>>
             THEN [calls EXCEPT ![c].imageMatches = @ \o found.match]
             ELSE IF calls[c].kind = "convert"
             THEN [calls EXCEPT ![c].pc = "loop"]
             ELSE [calls EXCEPT ![c].pc = "done",
                                ![c].references =
                                  References(calls[c].imageMatches, DocPath)]
        /\ running' = 0
  /\ UNCHANGED <<fs, rewriterVars, codecVars, converterVars, entryVars,
                 scanVars, pollVars, faultVars>>

\* one turn of while ((match = IMAGE_REGEX.exec(content)) !== null): the
\* match is pushed, or the loop ends; extractImageReferences then returns,
\* convertMarkdownImages goes on to its for loop without leaving the thread
ExecOnce(c) ==
  /\ running = c
  /\ calls[c].pc = "collecting"
  /\ LET found == RegExpExec(calls[c].content, lastIndex)
     IN /\ lastIndex' = found.lastIndex
        /\ calls' =
             IF found.match # <<>>
             THEN [calls EXCEPT ![c].imageMatches = @ \o found.match]
             ELSE IF calls[c].kind = "convert"
             THEN [calls EXCEPT ![c].pc = "loop"]
             ELSE [calls EXCEPT ![c].pc = "done",
                                ![c].references =
                                  References(calls[c].imageMatches, DocPath)]
        /\ running' = IF found.match = <<>> /\ calls[c].kind = "extract"
                      THEN 0 ELSE c
  /\ UNCHANGED <<fs, rewriterVars, codecVars, converterVars, entryVars,
                 scanVars, pollVars, faultVars>>

\* an iteration that ends in continue before any await: a remote reference
\* or one of an unsupported format
IterateWithoutAwait(c) ==
  /\ running = c
  /\ calls[c].pc = "loop"
  /\ calls[c].cursor <= Len(calls[c].imageMatches)
  /\ LET m == calls[c].imageMatches[calls[c].cursor]
     IN /\ ImageOutcome(fs, DocDir, m) \in {"remote", "unsupported"}
        /\ calls' = [calls EXCEPT ![c].result = ProcessImage(fs, DocDir, @, m),
                                  ![c].cursor = @ + 1]
  /\ UNCHANGED <<fs, lastIndex, running, rewriterVars, codecVars, converterVars,
                 entryVars, scanVars, pollVars, faultVars>>

\* await convertImageToBase64(absoluteImagePath): the call leaves the thread
AwaitCodec(c) ==
  /\ running = c
  /\ calls[c].pc = "loop"
  /\ calls[c].cursor <= Len(calls[c].imageMatches)
  /\ ImageOutcome(fs, DocDir, calls[c].imageMatches[calls[c].cursor])
       \in {"converted", "failed"}
  /\ calls' = [calls EXCEPT ![c].pc = "awaiting"]
  /\ running' = 0
  /\ UNCHANGED <<fs, lastIndex, rewriterVars, codecVars, converterVars,
                 entryVars, scanVars, pollVars, faultVars>>

\* the awaited conversion has settled: the rest of the iteration
ResumeIteration(c) ==
  /\ running = 0
  /\ calls[c].pc = "awaiting"
  /\ LET m == calls[c].imageMatches[calls[c].cursor]
     IN calls' = [calls EXCEPT ![c].result = ProcessImage(fs, DocDir, @, m),
                               ![c].cursor = @ + 1,
                               ![c].pc = "loop"]
  /\ running' = c
  /\ UNCHANGED <<fs, lastIndex, rewriterVars, codecVars, converterVars,
                 entryVars, scanVars, pollVars, faultVars>>

\* result.content = updatedContent; return result
CallReturns(c) ==
  /\ running = c
  /\ calls[c].pc = "loop"
  /\ calls[c].cursor > Len(calls[c].imageMatches)
  /\ calls' = [calls EXCEPT ![c].pc = "done"]
  /\ running' = 0
  /\ UNCHANGED <<fs, lastIndex, rewriterVars, codecVars, converterVars,
                 entryVars, scanVars, pollVars, faultVars>>

OverlapNext ==
  \E c \in CallIds :
    \/ CallEnters(c)
    \/ ExecOnce(c)
    \/ IterateWithoutAwait(c)
    \/ AwaitCodec(c)
    \/ ResumeIteration(c)
    \/ CallReturns(c)

(***************************************************************************)
(* pollExportStatus(params, maxRetries, interval): src/api.ts              *)
(***************************************************************************)
MaxRetriesArg == 4

\* maxRetries = 3 in the parameter list
DefaultMaxRetries == 3

\* interval = 2000 in the parameter list
DefaultInterval == 2000

\* what one axios.post comes to: it throws, or it answers with a state and,
\* perhaps, a url
Responses ==
  { [threw |-> TRUE, state |-> "", url |-> "", status |-> 0],
    [threw |-> FALSE, state |-> "success", url |-> "u", status |-> 200],
    [threw |-> FALSE, state |-> "success", url |-> "", status |-> 200],
    [threw |-> FALSE, state |-> "failed", url |-> "", status |-> 200],
    [threw |-> FALSE, state |-> "processing", url |-> "", status |-> 200] }

\* the arguments after params: none, maxRetries, maxRetries and interval
PollArguments ==
  {<<>>} \cup {<<n>> : n \in 0..MaxRetriesArg} \cup {<<2, 500>>}

\* the call, with the defaults of the parameter list filled in
PollInit ==
  /\ pollArgs \in PollArguments
  /\ maxRetries = IF Len(pollArgs) >= 1 THEN pollArgs[1] ELSE DefaultMaxRetries
  /\ interval = IF Len(pollArgs) >= 2 THEN pollArgs[2] ELSE DefaultInterval
  /\ attempt = 0
  /\ responses = <<>>
  /\ pollPc = "loop"
  /\ pollResult = [success |-> FALSE, url |-> "", error |-> "", httpStatus |-> 0]

\* state === 'success' with a url: return success
RequestSucceeds ==
  /\ pollPc = "loop"
  /\ attempt < maxRetries
  /\ \E response \in Responses :
       /\ ~response.threw
       /\ response.state = "success" /\ response.url # ""
       /\ responses' = Append(responses, response)
       /\ pollResult' = [success |-> TRUE, url |-> response.url, error |-> "",
                         httpStatus |-> response.status]
  /\ pollPc' = "returned"
  /\ UNCHANGED <<fs, pollArgs, maxRetries, interval, attempt, rewriterVars,
                 codecVars, converterVars, entryVars, overlapVars, scanVars,
                 faultVars>>

\* state === 'failed': return 'Export failed'
RequestFails ==
  /\ pollPc = "loop"
  /\ attempt < maxRetries
  /\ \E response \in Responses :
       /\ ~response.threw
       /\ ~(response.state = "success" /\ response.url # "")
       /\ response.state = "failed"
       /\ responses' = Append(responses, response)
       /\ pollResult' = [success |-> FALSE, url |-> "", error |-> "Export failed",
                         httpStatus |-> response.status]
  /\ pollPc' = "returned"
  /\ UNCHANGED <<fs, pollArgs, maxRetries, interval, attempt, rewriterVars,
                 codecVars, converterVars, entryVars, overlapVars, scanVars,
                 faultVars>>

\* any other answer: wait for interval
RequestPending ==
  /\ pollPc = "loop"
  /\ attempt < maxRetries
  /\ \E response \in Responses :
       /\ ~response.threw
       /\ ~(response.state = "success" /\ response.url # "")
       /\ response.state # "failed"
       /\ responses' = Append(responses, response)
  /\ pollPc' = "sleeping"
  /\ UNCHANGED <<fs, pollArgs, maxRetries, interval, attempt, pollResult,
                 rewriterVars, codecVars, converterVars, entryVars, overlapVars,
                 scanVars, faultVars>>

\* RequestThrows that rethrows whatever the attempt
RequestThrowsAndGivesUp ==
  /\ pollPc = "loop"
  /\ attempt < maxRetries
  /\ \E response \in Responses :
       /\ response.threw
       /\ responses' = Append(responses, response)
  /\ pollPc' = "rejected"
  /\ UNCHANGED <<fs, pollArgs, maxRetries, interval, attempt, pollResult,
                 rewriterVars, codecVars, converterVars, entryVars, overlapVars,
                 scanVars, faultVars>>

\* the request throws: rethrow on the last attempt, wait for interval on an
\* earlier one
RequestThrows ==
  /\ pollPc = "loop"
  /\ attempt < maxRetries
  /\ \E response \in Responses :
       /\ response.threw
       /\ responses' = Append(responses, response)
  /\ pollPc' = IF attempt = maxRetries - 1 THEN "rejected" ELSE "sleeping"
  /\ UNCHANGED <<fs, pollArgs, maxRetries, interval, attempt, pollResult,
                 rewriterVars, codecVars, converterVars, entryVars, overlapVars,
                 scanVars, faultVars>>

\* the timer of interval milliseconds fires: i++
IntervalElapses ==
  /\ pollPc = "sleeping"
  /\ attempt' = attempt + 1
  /\ pollPc' = "loop"
  /\ UNCHANGED <<fs, pollArgs, maxRetries, interval, responses, pollResult,
                 rewriterVars, codecVars, converterVars, entryVars, overlapVars,
                 scanVars, faultVars>>

\* the loop is over: return 'Export timeout'
PollTimesOut ==
  /\ pollPc = "loop"
  /\ ~(attempt < maxRetries)
  /\ pollResult' = [success |-> FALSE, url |-> "", error |-> "Export timeout",
                    httpStatus |-> 408]
  /\ pollPc' = "returned"
  /\ UNCHANGED <<fs, pollArgs, maxRetries, interval, attempt, responses,
                 rewriterVars, codecVars, converterVars, entryVars, overlapVars,
                 scanVars, faultVars>>

PollNext ==
  \/ RequestSucceeds
  \/ RequestFails
  \/ RequestPending
  \/ RequestThrows
  \/ IntervalElapses
  \/ PollTimesOut

(***************************************************************************)
(* The components that take no part in a specification stay as they are.   *)
(***************************************************************************)
OverlapIdle ==
  /\ lastIndex = 1
  /\ calls = <<>>
  /\ running = 0

ScanIdle ==
  /\ scanRoot = SourceRoot
  /\ scanResult = [error |-> <<>>, files |-> <<>>]
  /\ scanPc = "idle"

PollIdle ==
  /\ pollArgs = <<>>
  /\ maxRetries = 0
  /\ interval = 0
  /\ attempt = 0
  /\ responses = <<>>
  /\ pollPc = "idle"
  /\ pollResult = [success |-> FALSE, url |-> "", error |-> "", httpStatus |-> 0]

FaultIdle == thrownAt = {}

OthersIdle == OverlapIdle /\ ScanIdle /\ PollIdle /\ FaultIdle

vars ==
  <<fs, rewriterVars, codecVars, converterVars, entryVars, overlapVars,
    scanVars, pollVars, faultVars>>

Init == RewriterInit /\ CodecIdle /\ ConverterIdle /\ EntryIdle /\ OthersIdle

Next == RewriterNext

Spec == Init /\ [][Next]_vars

InitCodec ==
  CodecInit /\ RewriterIdle /\ ConverterIdle /\ EntryIdle /\ OthersIdle

NextCodec == EncodeImage

SpecCodec == InitCodec /\ [][NextCodec]_vars

InitConverter ==
  ConverterInit /\ RewriterIdle /\ CodecIdle /\ EntryIdle /\ OthersIdle

NextConverter == ConverterNext

SpecConverter == InitConverter /\ [][NextConverter]_vars

InitEntry == EntryInit /\ RewriterIdle /\ CodecIdle /\ OthersIdle

NextEntry == EntryNext

SpecEntry == InitEntry /\ [][NextEntry]_vars

\* convertImageToBase64 on any path
InitCodecAny ==
  CodecAnyInit /\ RewriterIdle /\ ConverterIdle /\ EntryIdle /\ OthersIdle

NextCodecAny == EncodeImage

SpecCodecAny == InitCodecAny /\ [][NextCodecAny]_vars

\* scanMarkdownFiles on any tree
InitScan ==
  /\ ScanInit /\ RewriterIdle /\ CodecIdle /\ ConverterIdle /\ EntryIdle
  /\ OverlapIdle /\ PollIdle /\ FaultIdle

NextScan == RunScan

SpecScan == InitScan /\ [][NextScan]_vars

\* two calls of markdownProcessor in flight
InitOverlap ==
  /\ OverlapInit /\ RewriterIdle /\ CodecIdle /\ ConverterIdle /\ EntryIdle
  /\ ScanIdle /\ PollIdle /\ FaultIdle

NextOverlap == OverlapNext

SpecOverlap == InitOverlap /\ [][NextOverlap]_vars

\* one call of pollExportStatus
InitPoll ==
  /\ fs = MakeFs({})
  /\ PollInit /\ RewriterIdle /\ CodecIdle /\ ConverterIdle /\ EntryIdle
  /\ OverlapIdle /\ ScanIdle /\ FaultIdle

NextPoll == PollNext

SpecPoll == InitPoll /\ [][NextPoll]_vars

\* every request settles and every timer fires, so the call goes on as long
\* as it has a step to take
SpecPollFair == SpecPoll /\ WF_vars(NextPoll)

\* the rewriter with a codec call that may throw
InitFaultyCodec ==
  RewriterInit /\ CodecIdle /\ ConverterIdle /\ EntryIdle /\ OthersIdle

NextFaultyCodec == RewriterNext \/ ThrowInImage

SpecFaultyCodec == InitFaultyCodec /\ [][NextFaultyCodec]_vars

(***************************************************************************)
(* Notions the properties are stated in.                                   *)
(***************************************************************************)
\* a path that begins with a networked scheme, http or other
HasScheme(imagePath) ==
  imagePath # <<>> /\ imagePath[1] \in {"http://", "https://", "ftp://"}

Matches == ExecAll(content, 1)

MatchIndexes == 1..Len(Matches)

\* the number of elements of sequence s that satisfy Test
Count(s, Test(_)) == Cardinality({k \in 1..Len(s) : Test(s[k])})

\* the span of match m of the input is still in the text, atom for atom
SpanUnchanged(m) ==
  \E at \in 1..Len(result.content) :
    /\ at + Len(m.originalMarkdown) - 1 <= Len(result.content)
    /\ \A k \in 1..Len(m.originalMarkdown) :
         result.origin[at + k - 1] = m.index + k - 1

\* the file a local reference names, resolved against the document's directory
ReferencedFile(m) == resolve(dirname(markdownFilePath), m.imagePath)

\* the references the rewrite counted as converted: local, of a supported
\* format, naming a readable image file
IsConverted(m) ==
  /\ ~isRemoteImage(m.imagePath)
  /\ isSupportedImageFormat(m.imagePath)
  /\ fileExists(fs, ReferencedFile(m))
  /\ isImageFile(ReferencedFile(m))

\* the input with the span of every converted occurrence, and nothing else,
\* replaced by the data-URI form that keeps the alt text as written
RECURSIVE RewriteByPosition(_, _, _)
RewriteByPosition(text, matches, from) ==
  IF matches = <<>> THEN Drop(text, from)
  ELSE LET m == Head(matches)
           next == m.index + Len(m.originalMarkdown)
           put == IF IsConverted(m)
                  THEN <<"!", "[">> \o m.altText
                         \o <<"]", "(", "data:", MIME_TYPES[LowerAtom(m.imagePath[Len(m.imagePath)])],
                              ";base64,">>
                         \o Base64Encode(Node(fs, ReferencedFile(m)).bytes) \o <<")">>
                  ELSE m.originalMarkdown
       IN SubSeq(text, from, m.index - 1) \o put
            \o RewriteByPosition(text, Tail(matches), next)

(***************************************************************************)
(* C1: a document whose image references are all remote (http, https or    *)
(* another scheme) comes back with convertedImages = 0, skippedImages =    *)
(* the number of references and the content unchanged, whatever files      *)
(* exist.                                                                  *)
(***************************************************************************)
C1_AllRemoteUntouched ==
  (pc = "done" /\ \A k \in MatchIndexes : HasScheme(Matches[k].imagePath))
    => /\ result.convertedImages = 0
       /\ result.skippedImages = Len(Matches)
       /\ result.content = content

(***************************************************************************)
(* C2 as stated: convertedImages + skippedImages is the number of          *)
(* local-candidate references; remote references are in neither count.     *)
(***************************************************************************)
C2_CountsOnlyLocal ==
  pc = "done" =>
    result.convertedImages + result.skippedImages
      = Count(Matches, LAMBDA m : ~isRemoteImage(m.imagePath))

(***************************************************************************)
(* C2 amended: convertedImages + skippedImages is the number of all image  *)
(* references found, remote ones included; every remote reference is       *)
(* counted in skippedImages and has its own "Skipped remote image"         *)
(* warning, and no more references are converted than are local.           *)
(***************************************************************************)
C2_CountsEveryReference ==
  pc = "done" =>
    /\ result.convertedImages + result.skippedImages = Len(Matches)
    /\ result.convertedImages <= Count(Matches, LAMBDA m : ~isRemoteImage(m.imagePath))
    /\ result.skippedImages >= Count(Matches, LAMBDA m : isRemoteImage(m.imagePath))
    /\ Count(result.warnings, LAMBDA w : w[1] = "Skipped remote image: ")
         = Count(Matches, LAMBDA m : isRemoteImage(m.imagePath))

C2_Witness ==
  /\ pc = "done"
  /\ result.convertedImages = 1
  /\ result.skippedImages = 2
  /\ Count(Matches, LAMBDA m : isRemoteImage(m.imagePath)) = 2

(***************************************************************************)
(* C3: a reference to a local image file that does not exist keeps its     *)
(* snippet unchanged in the output, gets a warning that mentions its path  *)
(* and is counted as skipped, and the rest of the document is processed.   *)
(***************************************************************************)
C3_MissingLeftAlone ==
  pc = "done" =>
    \A k \in MatchIndexes :
      (~HasScheme(Matches[k].imagePath) /\ ~Exists(fs, ReferencedFile(Matches[k])))
        => /\ SpanUnchanged(Matches[k])
           /\ \E w \in Range(result.warnings) : IndexOf(w, Matches[k].imagePath) # 0
           /\ result.skippedImages >= 1
           /\ cursor = Len(Matches) + 1

(***************************************************************************)
(* C4: a reference whose path begins with a scheme other than http/https   *)
(* (ftp) is remote for isRemoteImage, for extractImageReferences and for   *)
(* the rewriter: the codec is never called for it and it is never          *)
(* converted.                                                              *)
(***************************************************************************)
C4_OtherSchemeIsRemote ==
  /\ \A c \in Range(codecCalls) : imageMatches[c.match].imagePath[1] # "ftp://"
  /\ pc = "done" =>
       \A k \in MatchIndexes :
         Matches[k].imagePath[1] = "ftp://" =>
           /\ isRemoteImage(Matches[k].imagePath)
           /\ \A r \in Range(extractImageReferences(content, markdownFilePath)) :
                r.imagePath # Matches[k].imagePath
           /\ SpanUnchanged(Matches[k])

(***************************************************************************)
(* C5: the rewritten text is the input with each converted occurrence      *)
(* replaced by ![alt](data:mime;base64,payload), alt being the             *)
(* occurrence's alt text as written ("$" included); everything else is     *)
(* identical to the input.                                                 *)
(***************************************************************************)
C5_ExactForm ==
  pc = "done" => result.content = RewriteByPosition(content, Matches, 1)

(***************************************************************************)
(* C6: round trip of the codec.  For every supported extension and every   *)
(* buffer, the empty one included, encoding succeeds with                  *)
(* data:<mime of the extension>;base64,<payload>, and decoding the         *)
(* payload from base64 gives back the bytes; a zero-byte file gives the    *)
(* empty payload.                                                          *)
(***************************************************************************)
\* the registered media type of each extension
MediaType(ext) ==
  CASE ext \in {".jpg", ".jpeg"} -> "image/jpeg"
    [] ext \in {".png", ".PNG"} -> "image/png"
    [] ext = ".gif" -> "image/gif"
    [] ext = ".svg" -> "image/svg+xml"
    [] ext = ".webp" -> "image/webp"
    [] ext = ".bmp" -> "image/bmp"
    [] ext = ".ico" -> "image/x-icon"
    [] ext \in {".tiff", ".tif"} -> "image/tiff"

C6_RoundTrip ==
  codecPc = "done" =>
    /\ conversionResult.success
    /\ Len(conversionResult.dataUri) >= 3
    /\ SubSeq(conversionResult.dataUri, 1, 3)
         = <<"data:", MediaType(codecPath[Len(codecPath)]), ";base64,">>
    /\ Base64Decode(Drop(conversionResult.dataUri, 4)) = Node(fs, codecPath).bytes
    /\ Node(fs, codecPath).bytes = <<>> => Len(conversionResult.dataUri) = 3

C6_Witness ==
  /\ codecPc = "done"
  /\ Len(Node(fs, codecPath).bytes) = 2
  /\ conversionResult.dataUri[Len(conversionResult.dataUri)] = "="

(***************************************************************************)
(* Notions the properties of a run are stated in.                          *)
(***************************************************************************)
Finished == phase \in {"Done", "Failed"}

\* the part of filesystem f at and below the directory d
Tree(f, d) == [q \in {x \in DOMAIN f : x = d \/ IsBelow(x, d)} |-> f[q]]

\* the files of filesystem f below the directory d
FilesBelow(f, d) == {q \in DOMAIN f : IsBelow(q, d) /\ f[q].kind = "file"}

DestinationWasDirectory ==
  outputDir \in DOMAIN fsAtStart /\ fsAtStart[outputDir].kind = "dir"

\* the output paths of the files the scan returned
OutputPaths ==
  {join(outputDir, markdownFiles[k].relativePath) : k \in 1..Len(markdownFiles)}

Mentions(message, text) == IndexOf(message, text) # 0

(***************************************************************************)
(* C7 as stated: when the destination root exists as a directory and       *)
(* overwrite is false, the run touches nothing in the destination, writes  *)
(* no document, and reports the failure: convert() returns exactly one     *)
(* error, the "Output directory already exists" of createOutputDirectory.  *)
(***************************************************************************)
C7_ExistingDestinationOneError ==
  (phase # "Idle" /\ DestinationWasDirectory /\ ~options.overwrite) =>
    /\ fs = fsAtStart
    /\ written = <<>>
    /\ Finished =>
         /\ phase = "Failed"
         /\ Len(convertResult.errors) = 1
         /\ Mentions(convertResult.errors[1], <<"Output directory already exists: ">>)

(***************************************************************************)
(* C7 amended: when the destination root exists as a directory and         *)
(* overwrite is false, the run touches nothing in the destination and      *)
(* writes no document; when the scan returned at least one markdown file,  *)
(* createOutputDirectory throws "Output directory already exists" and      *)
(* convert() returns exactly that one error; when the scan threw,          *)
(* convert() returns the scan error only; when the scan found no markdown  *)
(* file, convert() returns no error and one warning.                       *)
(***************************************************************************)
C7_ExistingDestinationUntouched ==
  (phase # "Idle" /\ DestinationWasDirectory /\ ~options.overwrite) =>
    /\ fs = fsAtStart
    /\ written = <<>>
    /\ phase \notin {"ProcessingFiles"}
    /\ (Finished /\ markdownFiles # <<>>) =>
         /\ phase = "Failed"
         /\ Len(convertResult.errors) = 1
         /\ Mentions(convertResult.errors[1], <<"Output directory already exists: ">>)
    /\ (Finished /\ markdownFiles = <<>> /\ phase = "Failed") =>
         /\ Len(convertResult.errors) = 1
         /\ Mentions(convertResult.errors[1], <<"Failed to scan markdown files: ">>)
    /\ (Finished /\ markdownFiles = <<>> /\ phase = "Done") =>
         /\ convertResult.errors = <<>>
         /\ Len(convertResult.warnings) = 1

C7_Witness ==
  /\ phase = "Failed"
  /\ ~options.overwrite
  /\ FilesBelow(fsAtStart, outputDir) # {}
  /\ ~IsBelow(outputDir, sourceDir) /\ outputDir # sourceDir
  /\ Len(markdownFiles) = 2
  /\ Len(convertResult.errors) = 1
  /\ Mentions(convertResult.errors[1], <<"Output directory already exists: ">>)

C9_Idempotent ==
  (/\ runs # <<>>
   /\ Finished
   /\ options.overwrite
   /\ Tree(fsAtStart, sourceDir) = Tree(runs[Len(runs)].before, sourceDir))
    => /\ Tree(fs, outputDir) = Tree(runs[Len(runs)].after, outputDir)
       /\ convertResult.totalFiles = runs[Len(runs)].result.totalFiles
       /\ convertResult.convertedImages = runs[Len(runs)].result.convertedImages
       /\ convertResult.skippedImages = runs[Len(runs)].result.skippedImages

C9_Witness ==
  /\ runs # <<>>
  /\ phase = "Done"
  /\ options.overwrite
  /\ Tree(fsAtStart, sourceDir) = Tree(runs[Len(runs)].before, sourceDir)
  /\ FilesBelow(runs[1].before, outputDir) # {}
  /\ convertResult.convertedImages = 2
  /\ convertResult.skippedImages = 2
  /\ Len(written) = 2

(***************************************************************************)
(* C10: a run creates, changes or deletes nothing at or below the source   *)
(* root, wherever the destination root lies and whatever overwrite is.     *)
(***************************************************************************)
C10_SourceUntouched ==
  Tree(fs, sourceDir) = Tree(fsAtStart, sourceDir)

(***************************************************************************)
(* Notions the properties of the entry point are stated in.                *)
(***************************************************************************)
EntrySource == resolve(cwd, sourceArg)

EntryDestination == EntryOutputDir(cwd, sourceArg, options.output)

\* one of the fatal conditions held when the entry point was called
FatalCondition ==
  \/ ~Exists(fsAtStart, EntrySource)
  \/ fsAtStart[EntrySource].kind # "dir"
  \/ /\ Exists(fsAtStart, EntryDestination)
     /\ fsAtStart[EntryDestination].kind = "dir"
     /\ ~options.overwrite
  \/ /\ Exists(fsAtStart, EntryDestination)
     /\ fsAtStart[EntryDestination].kind # "dir"
  \/ /\ ~Exists(fsAtStart, EntryDestination)
     /\ BlockedByFile(fsAtStart, EntryDestination)

(***************************************************************************)
(* C11: under every fatal condition - source root missing or not a         *)
(* directory, destination existing without overwrite, destination not a    *)
(* directory, destination creation failing - no file is processed and the  *)
(* entry point convertMarkdownImages(sourceDir, options) rejects.          *)
(***************************************************************************)
C11_FatalRejects ==
  (entryPc # "Unused" /\ FatalCondition) =>
    /\ fileResults = <<>>
    /\ written = <<>>
    /\ entryPc # "Resolved"

(***************************************************************************)
(* Notions the order of a run is stated in.                                *)
(***************************************************************************)
StatedTransitions ==
  { <<"Idle", "Scanning">>, <<"Scanning", "PreparingOutput">>,
    <<"PreparingOutput", "ProcessingFiles">>, <<"ProcessingFiles", "Done">>,
    <<"Scanning", "Failed">>, <<"PreparingOutput", "Failed">> }

\* a finished converter is replaced by a new one
NewRun == { <<"Done", "Idle">>, <<"Failed", "Idle">> }

\* the entries of filesystem f below the destination root that were there
\* before the run and could not be removed, with what they hold
LeftInPlace(f) ==
  {q \in DOMAIN f :
     \E e \in DOMAIN fsAtStart :
       /\ IsEntryOf(e, outputDir)
       /\ ~fsAtStart[e].removable
       /\ (q = e \/ IsBelow(q, e))}

DestinationIsDirectory(f) == outputDir \in DOMAIN f /\ f[outputDir].kind = "dir"

\* the destination root is a directory that holds nothing
FullyPrepared(f) ==
  DestinationIsDirectory(f) /\ \A q \in DOMAIN f : ~IsBelow(q, outputDir)

\* the destination root is a directory that holds only what could not be
\* removed
Prepared(f) ==
  DestinationIsDirectory(f)
    /\ \A q \in DOMAIN f : IsBelow(q, outputDir) => q \in LeftInPlace(f)

(***************************************************************************)
(* C12 as stated: every run moves through the phases in the order Idle,    *)
(* Scanning, PreparingOutput, ProcessingFiles, Done; Failed is entered     *)
(* only from Scanning or PreparingOutput; Done is reached only after the   *)
(* destination was prepared; the destination is fully created or cleared   *)
(* before the first document is written, and nothing of it is removed      *)
(* once file processing has begun.                                         *)
(***************************************************************************)
C12_PhasesInOrder ==
  [][ /\ phase' # phase => <<phase, phase'>> \in StatedTransitions \cup NewRun
      /\ (phase = "PreparingOutput" /\ phase' = "ProcessingFiles")
           => FullyPrepared(fs')
      /\ Len(written') > Len(written) => phase = "ProcessingFiles"
      /\ phase = "ProcessingFiles" => DOMAIN fs \subseteq DOMAIN fs' ]_vars

(***************************************************************************)
(* C12 amended: every run moves through the phases in the order Idle,      *)
(* Scanning, PreparingOutput, ProcessingFiles, Done, except that a scan    *)
(* that finds no markdown file takes the run from Scanning straight to     *)
(* Done with the destination neither created nor cleared; Failed is        *)
(* entered only from Scanning or PreparingOutput; before the first         *)
(* document is written the destination root is a directory holding only    *)
(* the earlier entries whose removal failed, and nothing of it is removed  *)
(* once file processing has begun.                                         *)
(***************************************************************************)
C12_PhasesInOrderOrNothingToDo ==
  [][ /\ phase' # phase =>
           <<phase, phase'>> \in StatedTransitions \cup NewRun \cup {<<"Scanning", "Done">>}
      /\ (phase = "Scanning" /\ phase' = "Done")
           => /\ scanMarkdownFiles(fs, sourceDir).files = <<>>
              /\ scanMarkdownFiles(fs, sourceDir).error = <<>>
              /\ fs' = fs
      /\ (phase = "PreparingOutput" /\ phase' = "ProcessingFiles")
           => Prepared(fs')
      /\ Len(written') > Len(written) => phase = "ProcessingFiles"
      /\ phase = "ProcessingFiles" => DOMAIN fs \subseteq DOMAIN fs' ]_vars

C12_Witness ==
  /\ phase = "Done"
  /\ Len(written) = 1
  /\ Len(markdownFiles) = 1
  /\ options.overwrite
  /\ LeftInPlace(fs) # {}
  /\ FilesBelow(fsAtStart, outputDir) # {}

(***************************************************************************)
(* Notions the file loop is stated in.                                     *)
(***************************************************************************)
\* the entries errors' holds beyond those of errors
NewErrors ==
  SubSeq(convertResult'.errors, Len(convertResult.errors) + 1,
         Len(convertResult'.errors))

\* the file loop handled one file: the one at fileIndex, and no other
AttemptedNext ==
  /\ fileIndex <= Len(markdownFiles)
  /\ fileIndex' = fileIndex + 1
  /\ fileResults' =
       Append(fileResults, fileResults'[fileIndex])
  /\ fileResults'[fileIndex].relativePath = markdownFiles[fileIndex].relativePath
  /\ markdownFiles' = markdownFiles

\* the file handled in this step threw, and the aggregate's errors name it
FailureRecorded ==
  fileResults'[fileIndex].thrown # <<>> =>
    \E k \in 1..Len(NewErrors) :
      /\ Mentions(NewErrors[k], <<"Failed to process file ">>
                                  \o markdownFiles[fileIndex].relativePath)
      /\ Mentions(NewErrors[k], fileResults'[fileIndex].thrown)

(***************************************************************************)
(* C13: once file processing has begun, a file that throws never stops     *)
(* the run.  Every step of the file loop attempts the next file of the     *)
(* scan, so every file is attempted exactly once, in scan order; the       *)
(* failure of a file is recorded in the aggregate's errors with that       *)
(* file's relative path; the run leaves ProcessingFiles only for Done,     *)
(* never for Failed, and only when every file has been attempted.          *)
(***************************************************************************)
C13_FileFailureDoesNotStop ==
  [][ phase = "ProcessingFiles" =>
        /\ Len(fileResults) = fileIndex - 1
        /\ fileIndex <= Len(markdownFiles) + 1
        /\ phase' \in {"ProcessingFiles", "Done"}
        /\ phase' = "ProcessingFiles" => AttemptedNext /\ FailureRecorded
        /\ phase' = "Done" =>
             /\ Len(fileResults) = Len(markdownFiles)
             /\ \A k \in 1..Len(markdownFiles) :
                  fileResults[k].relativePath = markdownFiles[k].relativePath
             /\ UNCHANGED <<fileResults, convertResult, fs>> ]_vars

C13_Witness ==
  /\ phase = "Done"
  /\ Len(fileResults) = 2
  /\ fileResults[1].thrown # <<>>
  /\ fileResults[2].thrown = <<>>
  /\ Len(written) = 1
  /\ Len(convertResult.errors) = 3

(***************************************************************************)
(* Notions the totals of a run are stated in.                              *)
(***************************************************************************)
\* the sum of the numbers in the sequence ns
RECURSIVE Sum(_)
Sum(ns) == IF ns = <<>> THEN 0 ELSE Head(ns) + Sum(Tail(ns))

\* the files that were processed without a file-level error
ProcessedCleanly == SelectSeq(fileResults, LAMBDA r : r.thrown = <<>>)

(***************************************************************************)
(* C14: a document whose rewrite or write step throws contributes nothing  *)
(* to the totals: after the run convertedImages and skippedImages are the  *)
(* sums over the documents processed without a file-level error.           *)
(***************************************************************************)
C14_FailedFileAddsNothing ==
  phase = "Done" =>
    /\ convertResult.convertedImages =
         Sum([k \in 1..Len(ProcessedCleanly) |-> ProcessedCleanly[k].convertedImages])
    /\ convertResult.skippedImages =
         Sum([k \in 1..Len(ProcessedCleanly) |-> ProcessedCleanly[k].skippedImages])

\* the entries the two catch blocks of processMarkdownFile and the one of
\* the file loop add to errors for a file that threw
FileLevelErrors(r) ==
  IF r.thrown = <<>> THEN <<>>
  ELSE << <<"Failed to write converted file ">> \o r.relativePath \o <<": ">> \o r.thrown,
          <<"Error processing file ">> \o r.relativePath \o <<": ">> \o r.thrown,
          <<"Failed to process file ">> \o r.relativePath \o <<": ">> \o r.thrown >>

(***************************************************************************)
(* C15: after a run that reaches Done, totalFiles is the number of files   *)
(* the scan returned, convertedImages and skippedImages are the sums of    *)
(* the counts the rewriter returned for each file, and warnings and errors *)
(* hold the entries of each file concatenated in file-processing order     *)
(* (for errors: the rewriter's entries of a file, then the entries of that *)
(* file's own failure).                                                    *)
(***************************************************************************)
C15_AggregateIsTheSum ==
  phase = "Done" =>
    /\ convertResult.totalFiles = Len(markdownFiles)
    /\ Len(fileResults) = Len(markdownFiles)
    /\ convertResult.convertedImages =
         Sum([k \in 1..Len(fileResults) |-> fileResults[k].convertedImages])
    /\ convertResult.skippedImages =
         Sum([k \in 1..Len(fileResults) |-> fileResults[k].skippedImages])
    /\ markdownFiles # <<>> =>
         convertResult.warnings =
           Flatten([k \in 1..Len(fileResults) |-> fileResults[k].warnings])
    /\ convertResult.errors =
         Flatten([k \in 1..Len(fileResults) |->
                    fileResults[k].errors \o FileLevelErrors(fileResults[k])])

C15_Witness ==
  /\ phase = "Done"
  /\ runs = <<>>
  /\ Len(fileResults) = 2
  /\ fileResults[1].convertedImages = 1 /\ fileResults[2].convertedImages = 1
  /\ fileResults[1].warnings # <<>> \/ fileResults[2].warnings # <<>>
  /\ convertResult.totalFiles = 2
  /\ convertResult.convertedImages = 2
  /\ convertResult.skippedImages = 2

(***************************************************************************)
(* C16: when no output directory is given, the destination root is the     *)
(* source root's base name suffixed with -base64, resolved against the     *)
(* working directory, and new MarkdownImageConverter(sourceDir) and        *)
(* convertMarkdownImages(sourceDir, options) arrive at the same            *)
(* destination root for the same source root and working directory.        *)
(***************************************************************************)
C16_SameDefaultDestination ==
  (entryPc # "Unused" /\ options.output = <<>>) =>
    /\ ConstructorOutputDir(cwd, sourceArg, <<>>) =
         resolve(cwd, basename(resolve(cwd, sourceArg)) \o <<"-base64">>)
    /\ EntryOutputDir(cwd, sourceArg, <<>>) = ConstructorOutputDir(cwd, sourceArg, <<>>)

(***************************************************************************)
(* Notions the positions of a rewrite are stated in.                       *)
(***************************************************************************)
Outcome(m) == ImageOutcome(fs, dirname(markdownFilePath), m)

Span(m) == m.index .. (m.index + Len(m.originalMarkdown) - 1)

\* the positions of the input that lie in the span of a converted occurrence
ConvertedSpans ==
  UNION {Span(Matches[k]) : k \in {n \in MatchIndexes : Outcome(Matches[n]) = "converted"}}

\* the positions of the input whose atom is still in the output
SurvivingPositions ==
  {result.origin[k] : k \in 1..Len(result.origin)} \ {0}

(***************************************************************************)
(* C17: replacement is one-for-one by position.  The positions of the      *)
(* input that the rewrite changed are exactly those in the spans of the    *)
(* occurrences counted as converted, and the span of every skipped         *)
(* occurrence (remote, unsupported, failed) is in the output unchanged,    *)
(* also when a snippet repeats or appears inside another occurrence.       *)
(***************************************************************************)
C17_OneForOneByPosition ==
  pc = "done" =>
    /\ SurvivingPositions = (1..Len(content)) \ ConvertedSpans
    /\ \A k \in MatchIndexes :
         Outcome(Matches[k]) # "converted" => SpanUnchanged(Matches[k])

(***************************************************************************)
(* C18: every matched occurrence has exactly one outcome.  When            *)
(* convertMarkdownImages has returned, convertedImages + skippedImages is  *)
(* the number of image-syntax matches of the input, remote ones included,  *)
(* and warnings.length + errors.length is skippedImages.                   *)
(***************************************************************************)
C18_OneOutcomeEach ==
  /\ pc \in {"loop", "done"} =>
       /\ result.convertedImages + result.skippedImages = cursor - 1
       /\ Len(result.warnings) + Len(result.errors) = result.skippedImages
  /\ pc = "done" => cursor - 1 = Len(Matches)

C18_Witness ==
  /\ pc = "done"
  /\ Len(Matches) = 3
  /\ result.convertedImages = 1
  /\ result.skippedImages = 2
  /\ \E w \in Range(result.warnings) : w[1] = "Skipped unsupported image format: "
  /\ \E w \in Range(result.warnings) : w[1] = "Failed to convert image: "

\* the path of match m carries a ?query or a #fragment
HasSuffix(m) == \E k \in 1..Len(m.imagePath) : m.imagePath[k] \in {"?", "#"}

\* the file the cleaned path of match m names
CleanedFile(m) == resolve(dirname(markdownFilePath), cleanImagePath(m.imagePath))

(***************************************************************************)
(* C19: the rewriter cleans the path before it goes to the filesystem.  A  *)
(* local reference whose path carries a ?query or #fragment and whose      *)
(* cleaned path names an existing readable file of a supported type has    *)
(* that file read and is converted.                                        *)
(***************************************************************************)
C19_CleanedBeforeAccess ==
  pc = "done" =>
    \A k \in MatchIndexes :
      (/\ HasSuffix(Matches[k])
       /\ ~HasScheme(Matches[k].imagePath)
       /\ isSupportedImageFormat(Matches[k].imagePath)
       /\ fileExists(fs, CleanedFile(Matches[k]))
       /\ isImageFile(CleanedFile(Matches[k])))
        => /\ \E c \in Range(codecCalls) :
                c.match = k /\ resolve(<<"/">>, c.imagePath) = CleanedFile(Matches[k])
           /\ ~SpanUnchanged(Matches[k])
           /\ result.convertedImages >= 1

(***************************************************************************)
(* C20: the rewriter and the codec use one supported set.  For every path  *)
(* p, isSupportedImageFormat(p) is true exactly when                       *)
(* isImageFile(cleanImagePath(p)) is true, so a reference is skipped as    *)
(* unsupported only when the codec could not encode its file either.       *)
(***************************************************************************)
C20_OneSupportedSet ==
  \A k \in MatchIndexes :
    /\ isSupportedImageFormat(Matches[k].imagePath)
         <=> isImageFile(cleanImagePath(Matches[k].imagePath))
    /\ (pc = "done" /\ Outcome(Matches[k]) = "unsupported")
         => ~isImageFile(cleanImagePath(Matches[k].imagePath))

C22_NeverRejects ==
  /\ codecPc \in {"idle", "pending", "done"}
  /\ codecPc = "done" =>
       LET readableFile == /\ codecPath \in DOMAIN fs
                           /\ fs[codecPath].kind = "file"
                           /\ fs[codecPath].readable
           supported == LowerAtom(codecPath[Len(codecPath)])
                          \in SUPPORTED_IMAGE_EXTENSIONS
       IN IF readableFile /\ supported
          THEN /\ conversionResult.success
               /\ conversionResult.dataUri # <<>>
               /\ conversionResult.error = <<>>
          ELSE /\ ~conversionResult.success
               /\ conversionResult.dataUri = <<>>
               /\ conversionResult.error # <<>>

\* a directory that carries a supported extension: access() succeeds, the
\* read fails, and the call still resolves
C22_Witness ==
  /\ codecPc = "done"
  /\ codecPath \in DOMAIN fs
  /\ fs[codecPath].kind = "dir"
  /\ fs[codecPath].readable
  /\ isImageFile(codecPath)
  /\ ~conversionResult.success

(***************************************************************************)
(* Notions of the early returns of convert().                              *)
(***************************************************************************)
\* what the scan of this run met
ScanAtStart == scanMarkdownFiles(fsAtStart, sourceDir)

ScanFailed == ScanAtStart.error # <<>>

ScanEmpty == ScanAtStart.error = <<>> /\ ScanAtStart.files = <<>>

\* the source root is missing or is not a directory
SourceRootUnusable ==
  sourceDir \notin DOMAIN fsAtStart \/ fsAtStart[sourceDir].kind # "dir"

(***************************************************************************)
(* C23: a failed scan leaves the destination untouched.  When the source   *)
(* root is missing or not a directory, the destination root is neither     *)
(* created nor cleared, for either value of overwrite: nothing at or below *)
(* the destination root changes in the run, and no document is written.    *)
(***************************************************************************)
C23_FailedScanLeavesDestination ==
  (phase \notin {"Idle", "Scanning"} /\ SourceRootUnusable) =>
    /\ phase = "Failed"
    /\ ScanFailed
    /\ Tree(fs, outputDir) = Tree(fsAtStart, outputDir)
    /\ fs = fsAtStart
    /\ written = <<>>
    /\ convertResult.totalFiles = 0

\* the scan failed with overwrite set and a destination that holds entries
C23_Witness ==
  /\ phase = "Failed"
  /\ SourceRootUnusable
  /\ options.overwrite
  /\ \E q \in DOMAIN fs : IsBelow(q, outputDir)

(***************************************************************************)
(* C24: when the scan finds no markdown file, convert() returns with       *)
(* totalFiles, convertedImages and skippedImages 0, exactly one warning    *)
(* ("No markdown files found ...") and no error, and without preparing the *)
(* destination: the destination is neither created nor cleared, and a      *)
(* destination that exists with overwrite false is not an error.           *)
(***************************************************************************)
C24_NothingFoundNothingPrepared ==
  (phase \notin {"Idle", "Scanning"} /\ ScanEmpty) =>
    /\ phase = "Done"
    /\ convertResult.totalFiles = 0
    /\ convertResult.convertedImages = 0
    /\ convertResult.skippedImages = 0
    /\ Len(convertResult.warnings) = 1
    /\ Mentions(convertResult.warnings[1],
                <<"No markdown files found in source directory: ">>)
    /\ convertResult.errors = <<>>
    /\ fs = fsAtStart
    /\ written = <<>>

\* nothing found, the destination exists with entries and overwrite is false
C24_Witness ==
  /\ phase = "Done"
  /\ ScanEmpty
  /\ DestinationWasDirectory
  /\ ~options.overwrite
  /\ \E q \in DOMAIN fs : IsBelow(q, outputDir)

(***************************************************************************)
(* C25: convert() always terminates and resolves with its result, never    *)
(* rejecting.  Every step of a run moves it to a later phase or to the     *)
(* next file of the loop, the loop index stays within the files found, and *)
(* the only ends are the two returns.  A scan failure gives                *)
(* totalFiles 0 and exactly one error ("Failed to scan markdown files      *)
(* ..."), a failure to prepare the output gives exactly one error, and in  *)
(* both cases no document is written.                                      *)
(***************************************************************************)
PhaseRank ==
  CASE phase = "Idle" -> 0
    [] phase = "Scanning" -> 1
    [] phase = "PreparingOutput" -> 2
    [] phase = "ProcessingFiles" -> 3
    [] phase \in {"Done", "Failed"} -> 4

C25_ReturnsItsResult ==
  /\ phase \in {"Idle", "Scanning", "PreparingOutput", "ProcessingFiles",
                 "Done", "Failed"}
  /\ phase = "ProcessingFiles" => fileIndex \in 1..(Len(markdownFiles) + 1)
  /\ phase = "PreparingOutput" => markdownFiles = ScanAtStart.files
  /\ (phase = "Failed" /\ ScanFailed) =>
       /\ convertResult.totalFiles = 0
       /\ Len(convertResult.errors) = 1
       /\ Mentions(convertResult.errors[1], <<"Failed to scan markdown files: ">>)
       /\ written = <<>>
       /\ fs = fsAtStart
  /\ (phase = "Failed" /\ ~ScanFailed) =>
       /\ Len(convertResult.errors) = 1
       /\ Mentions(convertResult.errors[1], <<"Failed to create output directory: ">>)
       /\ written = <<>>
       /\ fs = fsAtStart

\* a step of a run goes to a later phase or to the next file
C25_EveryStepAdvances ==
  [][ \/ PhaseRank' > PhaseRank
      \/ /\ phase = "ProcessingFiles" /\ phase' = "ProcessingFiles"
         /\ fileIndex <= Len(markdownFiles)
         /\ fileIndex' = fileIndex + 1
         /\ markdownFiles' = markdownFiles
      \/ phase \in {"Done", "Failed"} /\ phase' = "Idle" ]_vars

C25_AlwaysReturns == []C25_ReturnsItsResult /\ C25_EveryStepAdvances

\* runs that returned after a failed scan and after a failed preparation
C25_Witness ==
  /\ phase = "Failed"
  /\ ~ScanFailed
  /\ Len(runs) = 1
  /\ runs[1].phase = "Done"

(***************************************************************************)
(* C26: clearing on overwrite is best-effort per entry.                    *)
(* createOutputDirectory(dir, true) on an existing directory that can be   *)
(* listed attempts to delete every immediate entry: an entry whose         *)
(* deletion fails stays, every other entry goes with all it holds, the     *)
(* preparation does not fail, and when no deletion fails the directory is  *)
(* empty afterwards.                                                       *)
(***************************************************************************)
\* the immediate entries of the destination root in filesystem f
EntriesOfDestination(f) == {q \in DOMAIN f : IsEntryOf(q, outputDir)}

C26_BestEffortClear ==
  [][ ( /\ phase = "PreparingOutput"
        /\ options.overwrite
        /\ outputDir \in DOMAIN fs
        /\ fs[outputDir].kind = "dir"
        /\ fs[outputDir].readable )
      => /\ phase' = "ProcessingFiles"
         /\ convertResult'.errors = convertResult.errors
         /\ outputDir \in DOMAIN fs' /\ fs'[outputDir].kind = "dir"
         /\ EntriesOfDestination(fs')
              = {q \in EntriesOfDestination(fs) : ~fs[q].removable}
         /\ \A q \in EntriesOfDestination(fs') : fs'[q] = fs[q]
         /\ (\A q \in EntriesOfDestination(fs) : fs[q].removable)
              => ~\E q \in DOMAIN fs' : IsBelow(q, outputDir)
         /\ \A q \in DOMAIN fs : ~IsBelow(q, outputDir) => q \in DOMAIN fs' /\ fs'[q] = fs[q]
    ]_vars

\* the destination held an entry that could not be removed and entries that
\* could: the first is still there, the others are gone, the run went on
C26_Witness ==
  /\ phase = "ProcessingFiles"
  /\ options.overwrite
  /\ \E q \in EntriesOfDestination(fsAtStart) : ~fsAtStart[q].removable /\ q \in DOMAIN fs
  /\ \E q \in EntriesOfDestination(fsAtStart) : fsAtStart[q].removable /\ q \notin DOMAIN fs

(***************************************************************************)
(* C27: an unreadable markdown file or an unreadable sub-directory below   *)
(* the source root is skipped and never aborts the scan.                   *)
(* scanMarkdownFiles returns every markdown file that can be read and that *)
(* lies below directories that can be listed, each exactly once, with its  *)
(* relative path and its content; the scan throws exactly when the source  *)
(* root is missing, is not a directory or cannot be listed.                *)
(***************************************************************************)
\* every directory from the source root down to p can be listed
Listable(p) ==
  \A q \in Ancestors(p) :
    (q = scanRoot \/ IsBelow(q, scanRoot)) => fs[q].kind = "dir" /\ fs[q].readable

ReadableMarkdownFiles ==
  {p \in DOMAIN fs : /\ IsBelow(p, scanRoot)
                      /\ fs[p].kind = "file"
                      /\ fs[p].readable
                      /\ LowerAtom(p[Len(p)]) \in {".md", ".markdown"}
                      /\ Listable(p)}

C27_UnreadableEntriesSkipped ==
  scanPc = "done" =>
    IF scanRoot \in DOMAIN fs /\ fs[scanRoot].kind = "dir" /\ fs[scanRoot].readable
    THEN /\ scanResult.error = <<>>
         /\ {file.absolutePath : file \in Range(scanResult.files)}
              = ReadableMarkdownFiles
         /\ Len(scanResult.files) = Cardinality(ReadableMarkdownFiles)
         /\ \A file \in Range(scanResult.files) :
              /\ file.content = fs[file.absolutePath].text
              /\ scanRoot \o <<"/">> \o file.relativePath = file.absolutePath
    ELSE /\ scanResult.error # <<>>
         /\ scanResult.files = <<>>

\* a document that cannot be read and a sub-directory that cannot be listed,
\* next to documents that are returned
C27_Witness ==
  /\ scanPc = "done"
  /\ \E p \in DOMAIN fs :
       IsBelow(p, scanRoot) /\ fs[p].kind = "file" /\ ~fs[p].readable
  /\ \E p \in DOMAIN fs :
       /\ IsBelow(p, scanRoot) /\ fs[p].kind = "dir" /\ ~fs[p].readable
       /\ \E q \in DOMAIN fs : IsBelow(q, p)
  /\ Len(scanResult.files) = 1

(***************************************************************************)
(* C28: overlapping rewrites are isolated.  When two calls of              *)
(* convertMarkdownImages(content, path), or one and a call of              *)
(* extractImageReferences, interleave at their await points, each collects *)
(* exactly the matches of its own text, in order, and returns what it      *)
(* returns when run alone on the same filesystem; the lastIndex of the     *)
(* shared IMAGE_REGEX never makes a call miss, repeat or misorder an       *)
(* occurrence.                                                             *)
(***************************************************************************)
C28_OverlappingCallsIsolated ==
  \A c \in DOMAIN calls :
    /\ calls[c].pc \in {"loop", "awaiting", "done"}
         => calls[c].imageMatches = ExecAll(calls[c].content, 1)
    /\ (calls[c].pc = "done" /\ calls[c].kind = "convert")
         => calls[c].result = ConvertMarkdown(fs, calls[c].content, DocPath)
    /\ (calls[c].pc = "done" /\ calls[c].kind = "extract")
         => calls[c].references = extractImageReferences(calls[c].content, DocPath)

\* both calls are in flight: the second entered, reset lastIndex and
\* collected its matches while the first, with an occurrence still to go,
\* awaited a conversion
C28_Witness ==
  /\ Len(calls) = 2
  /\ calls[1].pc = "awaiting"
  /\ calls[1].cursor = 1
  /\ Len(calls[1].imageMatches) = 2
  /\ calls[2].pc = "awaiting"
  /\ Len(calls[2].imageMatches) = 2

(***************************************************************************)
(* C29: pollExportStatus(params, maxRetries, interval) always terminates,  *)
(* after at most maxRetries requests, with exactly one outcome: success    *)
(* with the url at the first response whose state is "success" and that    *)
(* has a url; "Export failed" at the first response whose state is         *)
(* "failed"; "Export timeout" with httpStatus 408 when no attempt ended    *)
(* the poll; or a rejection, which happens only when the request of the    *)
(* last allowed attempt throws.  A request error on an earlier attempt is  *)
(* retried, and no request is made after a terminal response.              *)
(***************************************************************************)
\* a response that ends the poll
Terminal(response) ==
  /\ ~response.threw
  /\ \/ response.state = "success" /\ response.url # ""
     \/ response.state = "failed"

PollEnded == pollPc \in {"returned", "rejected"}

LastResponse == responses[Len(responses)]

C29_PollOutcome ==
  /\ pollPc \in {"idle", "loop", "sleeping", "returned", "rejected"}
  /\ Len(responses) <= maxRetries
  /\ \A k \in 1..(Len(responses) - 1) : ~Terminal(responses[k])
  /\ ~PollEnded => \A k \in 1..Len(responses) : ~Terminal(responses[k])
  /\ (pollPc = "returned" /\ pollResult.success) =>
       /\ LastResponse.state = "success" /\ ~LastResponse.threw
       /\ pollResult.url = LastResponse.url /\ pollResult.url # ""
       /\ pollResult.error = ""
  /\ (pollPc = "returned" /\ ~pollResult.success) =>
       /\ pollResult.error \in {"Export failed", "Export timeout"}
       /\ pollResult.error = "Export failed"
            <=> (responses # <<>> /\ ~LastResponse.threw
                   /\ LastResponse.state = "failed")
       /\ pollResult.error = "Export timeout" =>
            /\ pollResult.httpStatus = 408
            /\ Len(responses) = maxRetries
            /\ \A k \in 1..Len(responses) : ~Terminal(responses[k])
            /\ responses # <<>> => ~LastResponse.threw
  /\ pollPc = "rejected" =>
       /\ Len(responses) = maxRetries
       /\ LastResponse.threw
  /\ PollEnded =>
       \A k \in 1..Len(responses) :
         (responses[k].threw /\ k < maxRetries) => k < Len(responses)

C29_PollTerminates == []C29_PollOutcome /\ <>PollEnded

\* the first request threw and was retried; the last allowed one threw too
C29_Witness ==
  /\ pollPc = "rejected"
  /\ maxRetries = 3
  /\ responses[1].threw
  /\ ~responses[2].threw

(***************************************************************************)
(* C30: called without an explicit maxRetries, pollExportStatus polls up   *)
(* to 30 times (default maxRetries 30, default interval 2000 ms) before it *)
(* reports "Export timeout".                                               *)
(***************************************************************************)
C30_DefaultIsThirty ==
  (pollArgs = <<>> /\ pollPc = "returned" /\ pollResult.error = "Export timeout") =>
    /\ maxRetries = 30
    /\ interval = 2000
    /\ Len(responses) = 30

=============================================================================
